---- MODULE Spec2Model ----
(***************************************************************************)
(* Model of the grayscale-to-phase calibration and correction pipeline of  *)
(* SantecSLM (calib_tools.py): linear_interpolation and                    *)
(* map_grayscale_to_phase.                                                 *)
(*                                                                         *)
(* Arrays are sequences.  Index-valued quantities keep the 0-based values  *)
(* of the Python code (interp_coef_idx, period_end_idx, argmin); At(s, i)  *)
(* reads a sequence at a 0-based index.                                    *)
(*                                                                         *)
(* Floating point values are modelled exactly: a result of the             *)
(* interpolation is a fraction n/d, or inf / nan when numpy divides by 0.  *)
(* Intensities are integers in units of 1/IOne, phases are integers in     *)
(* units of pi/PI, and acos(sqrt(.)) is the table AcosSqrt of its exact    *)
(* values at the intensities the model uses.                               *)
(***************************************************************************)
EXTENDS Integers, Sequences, FiniteSets, TLC

VARIABLES pc,                 \* "ready" before the call, "returned" / "raised" after
          target, xs, ys,     \* arguments of linear_interpolation
          interp,             \* its outcome
          grayscales, intensities, ignored_samples,  \* arguments of map_grayscale_to_phase
          curve,              \* its outcome
          image,              \* SLMPiece 'image' parameter: rows of pixel values
          correction_data,    \* PhaseCorrector 'Correction data' parameter
          corrected,          \* outcome of PhaseCorrector.generate_pattern
          debug,              \* puzzle.debug
          connected,          \* SLMPiece 'connected' parameter
          slm_dimensions,     \* SLMPiece 'SLM dimensions' parameter, (height, width)
          wavelength, slm_phase, wl_save,   \* SLMPiece wavelength, phase and save parameters
          device,             \* the display and the controller behind the driver
          calls,              \* driver calls of the last operation, with their status
          outcome,            \* what the last operation of a piece did
          params,             \* the parameters of the pattern generator pieces
          active,             \* the generator whose generate_pattern is called
          pattern,            \* the pattern it returns
          return_code,        \* the status code given to check_error
          optional_header_msg, \* the header given to check_error
          error_msg,          \* the message of the error check_error raised
          data,               \* the spectra of the last calibration sweep
          wls,                \* the wavelengths of the last calibration sweep
          sweep,              \* the calibration sweep that is running: the locals of measure
          events              \* what the running sweep has done so far, in order

vars == <<pc, target, xs, ys, interp, grayscales, intensities, ignored_samples, curve,
          image, correction_data, corrected,
          debug, connected, slm_dimensions, wavelength, slm_phase, wl_save,
          device, calls, outcome, params, active, pattern, return_code,
          optional_header_msg, error_msg, data, wls, sweep, events>>
interpVars == <<target, xs, ys, interp>>
mapVars == <<grayscales, intensities, ignored_samples, curve>>
corrVars == <<image, correction_data, corrected>>
\* the parameters of the pieces, which a direct call of a function leaves alone
slmVars == <<debug, connected, slm_dimensions, wavelength, slm_phase, wl_save,
            device, calls, outcome>>
genVars == <<params, active, pattern>>
errVars == <<return_code, optional_header_msg, error_msg>>
measVars == <<data, wls, sweep, events>>
pieceVars == <<corrVars, slmVars, genVars, errVars, measVars>>

----------------------------------------------------------------------------
(* Bounds *)

MaxLen == 3          \* longest x / y of linear_interpolation
MaxTargets == 2      \* longest target array
MaxSweep == 6        \* longest sweep given to map_grayscale_to_phase
MaxIgnored == 2      \* largest ignored_samples
MaxRound == 5        \* longest sweep of the inverse lookup at the knots
MaxHeight == 2       \* tallest SLM image
MaxWidth == 2        \* widest SLM image
MaxSide == 3         \* largest height and width given to the pattern generators
MaxSamples == 2      \* most samples of a calibration sweep
MaxWl == 2           \* most wavelengths of a calibration sweep

----------------------------------------------------------------------------
(* numpy helpers *)

At(s, i) == s[i + 1]

Sign(v) == IF v > 0 THEN 1 ELSE IF v < 0 THEN -1 ELSE 0

Abs(v) == IF v < 0 THEN -v ELSE v

MinInt(a, b) == IF a < b THEN a ELSE b

MaxInt(a, b) == IF a > b THEN a ELSE b

NpMin(s) == CHOOSE v \in {s[i] : i \in 1..Len(s)} : \A j \in 1..Len(s) : v <= s[j]

NpMax(s) == CHOOSE v \in {s[i] : i \in 1..Len(s)} : \A j \in 1..Len(s) : v >= s[j]

\* np.argmin: 0-based index of the first occurrence of the minimum
ArgMin(s) ==
    LET m == NpMin(s)
    IN (CHOOSE i \in 1..Len(s) : s[i] = m /\ \A j \in 1..(i - 1) : s[j] # m) - 1

\* np.argmax of a boolean array: 0-based index of the first True, 0 when there is none
ArgMaxBool(b) ==
    IF \E i \in 1..Len(b) : b[i]
    THEN (CHOOSE i \in 1..Len(b) : b[i] /\ \A j \in 1..(i - 1) : ~b[j]) - 1
    ELSE 0

\* s[::-1]
Reversed(s) == [i \in 1..Len(s) |-> s[Len(s) + 1 - i]]

\* np.diff(s, append=s[-1])
DiffAppend(s) == [i \in 1..Len(s) |-> IF i < Len(s) THEN s[i + 1] - s[i] ELSE 0]

\* the 0-based indices selected by the Python slice [a:b] of an array of length n
PySlice(n, a, b) ==
    LET start == IF a < 0 THEN MaxInt(0, n + a) ELSE MinInt(a, n)
        stop == IF b < 0 THEN MaxInt(0, n + b) ELSE MinInt(b, n)
    IN {i \in 0..(n - 1) : start <= i /\ i < stop}

\* s[mask]: the elements of s where the boolean mask is True, in order
RECURSIVE BoolSelect(_, _)
BoolSelect(s, mask) ==
    IF Len(s) = 0 THEN <<>>
    ELSE IF mask[1] THEN <<s[1]>> \o BoolSelect(Tail(s), Tail(mask))
         ELSE BoolSelect(Tail(s), Tail(mask))

\* the set of sequences over S of length lo..hi
SeqsOf(S, lo, hi) == UNION {[1..n -> S] : n \in lo..hi}

----------------------------------------------------------------------------
(* Floating point values of the interpolation *)

Fin(n, d) == [k |-> "fin", n |-> n, d |-> d]

NaN == [k |-> "nan", n |-> 0, d |-> 0]

Inf(s) == [k |-> "inf", n |-> s, d |-> 0]

\* a / b as numpy computes it for floats: b = 0 gives inf or nan, no exception
FDiv(a, b) ==
    IF b # 0 THEN (IF b > 0 THEN Fin(a, b) ELSE Fin(-a, -b))
    ELSE IF a = 0 THEN NaN ELSE Inf(Sign(a))

\* c * f for an integer c
FScale(c, f) ==
    IF f.k = "fin" THEN Fin(c * f.n, f.d)
    ELSE IF f.k = "nan" \/ c = 0 THEN NaN
    ELSE Inf(Sign(c) * f.n)

\* c + f for an integer c
FAddInt(c, f) == IF f.k = "fin" THEN Fin(c * f.d + f.n, f.d) ELSE f

\* f equals the integer v
FEqInt(f, v) == f.k = "fin" /\ f.n = v * f.d

\* lo <= f <= hi for integers lo, hi
FBetween(f, lo, hi) == f.k = "fin" /\ lo * f.d <= f.n /\ f.n <= hi * f.d

----------------------------------------------------------------------------
(* linear_interpolation(target, x, y) *)

\* mutant: the range check without its lower bound
OutOfRange_UpperOnly(t, x) == NpMax(t) > NpMax(x)

\* the range check of line 301
OutOfRange(t, x) == NpMin(t) < NpMin(x) \/ NpMax(t) > NpMax(x)

\* mutant: the first index with x[i] <= tv (argmax without the reversal)
InterpCoefIdx_First(tv, x) == ArgMaxBool([i \in 1..Len(x) |-> x[i] - tv <= 0])

\* interp_coef_idx for one target value: x.size - argmax((x - tv)[::-1] <= 0) - 1
InterpCoefIdx(tv, x) ==
    Len(x) - ArgMaxBool(Reversed([i \in 1..Len(x) |-> x[i] - tv <= 0])) - 1

\* mutant: the last x repeated without the step of 1
ExtendX_NoStep(x) == Append(x, x[Len(x)])

\* x and y with the last value repeated (lines 308-309)
ExtendX(x) == Append(x, x[Len(x)] + 1)

ExtendY(y) == Append(y, y[Len(y)])

\* mutant: every target is interpolated on the line through the first two knots
InterpOne_FirstSegment(tv, x, y) ==
    LET ex == ExtendX(x)
        ey == ExtendY(y)
        slope == FDiv(At(ey, 1) - At(ey, 0), At(ex, 1) - At(ex, 0))
    IN FAddInt(At(ey, 0), FScale(tv - At(ex, 0), slope))

\* the interpolation formula for one target value (lines 312-313)
InterpOne(tv, x, y) ==
    LET i == InterpCoefIdx(tv, x)
        ex == ExtendX(x)
        ey == ExtendY(y)
        slope == FDiv(At(ey, i + 1) - At(ey, i), At(ex, i + 1) - At(ex, i))
    IN FAddInt(At(ey, i), FScale(tv - At(ex, i), slope))

linear_interpolation(t, x, y) ==
    IF OutOfRange(t, x)
    THEN [raised |-> TRUE, result |-> <<>>, idx |-> <<>>]
    ELSE [raised |-> FALSE,
          result |-> [j \in 1..Len(t) |-> InterpOne(t[j], x, y)],
          idx |-> [j \in 1..Len(t) |-> InterpCoefIdx(t[j], x)]]

----------------------------------------------------------------------------
(* Inputs of linear_interpolation *)

XVals == {0, 1, 10}

YVals == {0, 1, 3}

TVals == {0, 1, 5, 10, 11}

NoInterp == [raised |-> FALSE, result |-> <<>>, idx |-> <<>>]

\* generate_pattern not called yet
NoCorrected == [error |-> "", stage |-> "", rows |-> <<>>, pattern |-> <<>>, table |-> <<>>]

\* the wavelength and phase stored in the controller
DeviceSettings == [wavelength |-> 1064, phase |-> 150]

\* defaults of the spinboxes, lines 38-39
ParamDefaults == [wavelength |-> 635, phase |-> 200]

\* no operation of a piece has run
NoOutcome == [op |-> "", error |-> "", returned |-> "None"]

\* the SLM piece before connect
SLMIdle ==
    /\ connected = FALSE
    /\ slm_dimensions = <<>>
    /\ wavelength = ParamDefaults.wavelength
    /\ slm_phase = ParamDefaults.phase
    /\ device = [disp_open |-> FALSE, ctrl_open |-> FALSE, shown |-> <<>>,
                 wavelength |-> DeviceSettings.wavelength, phase |-> DeviceSettings.phase,
                 saved |-> FALSE]
    /\ calls = <<>>
    /\ outcome = NoOutcome

DutyOne == 20

\* the defaults of define_params
DefaultParams ==
    [UniformPattern |-> [phase |-> 50],
     BlazedGratingPattern |-> [period |-> 50, contrast |-> 1023, horizontal |-> FALSE],
     BinaryGratingPattern |-> [contrast |-> 512, period |-> 25, duty_cycle |-> 10,
                               horizontal |-> FALSE],
     SlitPattern |-> [vertical |-> TRUE, width |-> 50, offset |-> 0, double |-> FALSE,
                      distance |-> 200, slit_phase |-> 0, nonslit_phase |-> 512],
     PinholePattern |-> [radius |-> 30, offset_x |-> 0, offset_y |-> 0,
                         slit_phase |-> 0, nonslit_phase |-> 512],
     PatternMultiplier |-> [gen1 |-> "BinaryGratingPattern", gen2 |-> "SlitPattern"]]

\* interface.py lines 33-34
SLM_OK == 0
SLM_NG == 1

\* check_error has not been called
CheckIdle ==
    /\ return_code = SLM_OK
    /\ optional_header_msg = ""
    /\ error_msg = <<>>

\* no sweep is running
NoSweep ==
    [caller |-> "", mode |-> "", normalize |-> "", sample_nb |-> 0, target_piece |-> "",
     effective_wls |-> <<>>, spectrums |-> <<>>, before |-> <<>>]

\* no calibration sweep has run
MeasureIdle ==
    /\ data = <<>>
    /\ wls = <<>>
    /\ sweep = NoSweep
    /\ events = <<>>

\* no generator has run
GeneratorsIdle ==
    /\ params = DefaultParams
    /\ active = ""
    /\ pattern = <<>>

\* the pieces before any of their actions has run
PiecesIdle ==
    /\ image = <<>>
    /\ correction_data = <<>>
    /\ corrected = NoCorrected
    /\ debug = FALSE
    /\ wl_save = TRUE
    /\ SLMIdle
    /\ GeneratorsIdle
    /\ CheckIdle
    /\ MeasureIdle

NoCurve ==
    [raised |-> FALSE, x |-> <<>>, phases |-> <<>>, period_end_idx |-> 0,
     argmin |-> 0, discarded |-> {}, kept_x |-> <<>>, zero_idx |-> 0]

InitInterp ==
    /\ pc = "ready"
    /\ xs \in SeqsOf(XVals, 1, MaxLen)
    /\ ys \in [1..Len(xs) -> YVals]
    /\ target \in SeqsOf(TVals, 1, MaxTargets)
    /\ interp = NoInterp
    /\ grayscales = <<>>
    /\ intensities = <<>>
    /\ ignored_samples = 0
    /\ curve = NoCurve
    /\ PiecesIdle

\* the call raises ValueError (line 302)
InterpRaise ==
    /\ pc = "ready"
    /\ interp' = linear_interpolation(target, xs, ys)
    /\ interp'.raised
    /\ pc' = "raised"
    /\ UNCHANGED <<target, xs, ys, mapVars, pieceVars>>

\* the call returns result (line 314)
InterpReturn ==
    /\ pc = "ready"
    /\ interp' = linear_interpolation(target, xs, ys)
    /\ ~interp'.raised
    /\ pc' = "returned"
    /\ UNCHANGED <<target, xs, ys, mapVars, pieceVars>>

NextInterp == InterpRaise \/ InterpReturn

SpecInterp == InitInterp /\ [][NextInterp]_vars

----------------------------------------------------------------------------
(* Claims about linear_interpolation, checked under SpecInterp *)

StrictlyAscending(s) == \A i \in 1..(Len(s) - 1) : s[i] < s[i + 1]

SomeTargetOutside == \E j \in 1..Len(target) : target[j] < NpMin(xs) \/ target[j] > NpMax(xs)

\* C1: linear_interpolation raises, and returns no result, exactly when at least
\* one target value is smaller than min(x) or larger than max(x); it raises no
\* range error when every target lies in [min(x), max(x)].
C1_RangeError ==
    pc # "ready" =>
        /\ (pc = "raised") = SomeTargetOutside
        /\ interp.raised = SomeTargetOutside
        /\ (interp.raised => interp.result = <<>>)
        /\ (~interp.raised => Len(interp.result) = Len(target))

\* C1 witness: x=[0,10], y=[0,1], target=[11] has failed
C1_Witness ==
    pc = "raised" /\ xs = <<0, 10>> /\ ys = <<0, 1>> /\ target = <<11>> /\ interp.raised

IsGreatestBelow(i, tv) == xs[i] <= tv /\ \A k \in (i + 1)..Len(xs) : xs[k] > tv

\* r = y[i] + (tv - x[i]) * (y[i+1] - y[i]) / (x[i+1] - x[i]), cross-multiplied
OnSegment(r, i, tv) ==
    /\ r.k = "fin"
    /\ r.n * (xs[i + 1] - xs[i]) =
         r.d * (ys[i] * (xs[i + 1] - xs[i]) + (tv - xs[i]) * (ys[i + 1] - ys[i]))

\* C3: for each in-range target the segment used starts at the greatest index i
\* with x[i] <= target, and the result is
\* y[i] + (target - x[i]) * (y[i+1]-y[i])/(x[i+1]-x[i]) (y[i] on the last knot).
C3_PiecewiseLinear ==
    pc = "returned" =>
        \A j \in 1..Len(target) : \E i \in 1..Len(xs) :
            /\ IsGreatestBelow(i, target[j])
            /\ interp.idx[j] = i - 1
            /\ (i = Len(xs) => FEqInt(interp.result[j], ys[i]))
            /\ ((i < Len(xs) /\ xs[i + 1] # xs[i]) => OnSegment(interp.result[j], i, target[j]))

\* C3 witness: target 5 halfway between the knots (0,0) and (10,1) gives 1/2
C3_Witness ==
    /\ pc = "returned" /\ xs = <<0, 10>> /\ ys = <<0, 1>> /\ target = <<5>>
    /\ interp.result[1].k = "fin" /\ 2 * interp.result[1].n = interp.result[1].d

----------------------------------------------------------------------------
(* map_grayscale_to_phase(grayscales, intensities, ignored_samples) *)

IOne == 10000        \* intensity 1.0, in units of 1/10000

PI == 4092           \* pi, in phase units of pi/4092

GMax == 1023         \* the last grayscale of the device (line 286)

\* acos(sqrt(y)) at the intensities of the model: the quarter levels, where it
\* is pi/2, pi/3, pi/4, pi/6 and 0, and the samples of cos^2(pi*g/2046) at
\* g = 0, 100, ..., 1000 (to 4 decimals), where it is pi*g/2046
AcosSqrt(v) ==
    CASE v = 0 -> 2046
      [] v = 2500 -> 1364
      [] v = 5000 -> 1023
      [] v = 7500 -> 682
      [] v = 10000 -> 0
      [] v = 9766 -> 200
      [] v = 9086 -> 400
      [] v = 8024 -> 600
      [] v = 6679 -> 800
      [] v = 5177 -> 1000
      [] v = 3658 -> 1200
      [] v = 2265 -> 1400
      [] v = 1127 -> 1600
      [] v = 352 -> 1800
      [] v = 12 -> 2000

\* lines 263-264: y /= max(y) when max(y) > 1
Normalize(y) ==
    IF NpMax(y) > IOne THEN [i \in 1..Len(y) |-> (y[i] * IOne) \div NpMax(y)] ELSE y

\* line 266
Slopes(y) == LET d == DiffAppend(y) IN [i \in 1..Len(y) |-> Sign(d[i])]

\* line 267
DistFrom1st(y) == [i \in 1..Len(y) |-> Sign(y[i] - y[1])]

\* line 268
PeriodDelim(y) ==
    LET d == DiffAppend(DistFrom1st(y))
        first == Slopes(y)[1]
    IN [i \in 1..Len(y) |-> Sign(d[i]) = first]

\* lines 270-274: the number of samples kept by x[0:period_end_idx]
PeriodEndIdx(y) ==
    IF Len(y) > 1 THEN ArgMaxBool(Tail(PeriodDelim(y))) + 1 ELSE Len(y)

\* mutant: the slice stops one sample short
Discarded_StopShort(y, ign) == PySlice(Len(y), ArgMin(y) - ign, ArgMin(y) + ign)

\* lines 276-277: the 0-based indices whose ignore_mask is set to 0
Discarded(y, ign) == PySlice(Len(y), ArgMin(y) - ign, ArgMin(y) + ign + 1)

\* line 278
IgnoreMask(y, ign) ==
    LET zeroed == Discarded(y, ign) IN [i \in 1..Len(y) |-> (i - 1) \notin zeroed]

\* mutant: the branches of acos exchanged
Unfold_Swapped(y, slopes) ==
    [i \in 1..Len(y) |-> IF slopes[i] < 0 THEN PI - AcosSqrt(y[i]) ELSE AcosSqrt(y[i])]

\* lines 280-281
Unfold(y, slopes) ==
    [i \in 1..Len(y) |-> IF slopes[i] > 0 THEN PI - AcosSqrt(y[i]) ELSE AcosSqrt(y[i])]

\* line 282
ZeroIdx(phases) == ArgMin([i \in 1..Len(phases) |-> Abs(phases[i] - 0)])

\* mutant: the first phase subtracted before the samples before zero_idx are
\* moved down by pi
Stitch_ShiftFirst(phases) ==
    LET zero_idx == ZeroIdx(phases)
        shifted == [i \in 1..Len(phases) |-> phases[i] - phases[1]]
        stitched == [i \in 1..Len(phases) |->
                        IF i - 1 < zero_idx THEN shifted[i] - PI ELSE shifted[i]]
    IN [i \in 1..Len(phases) |-> 2 * stitched[i]]

\* lines 283-285
Stitch(phases) ==
    LET zero_idx == ZeroIdx(phases)
        stitched == [i \in 1..Len(phases) |->
                        IF i - 1 < zero_idx THEN phases[i] - PI ELSE phases[i]]
        shifted == [i \in 1..Len(phases) |-> stitched[i] - stitched[1]]
    IN [i \in 1..Len(phases) |-> 2 * shifted[i]]

\* mutant: the test made on the last grayscale of the input sweep
NeedsFinalPoint_Input(g, kept) == g[Len(g)] # GMax

\* line 286: g is the input sweep, kept the grayscales left after the exclusion
NeedsFinalPoint(g, kept) == kept[Len(kept)] # GMax

map_grayscale_to_phase(g, intens, ign) ==
    IF Len(intens) = 0
    THEN [NoCurve EXCEPT !.raised = TRUE]           \* np.max of an empty array
    ELSE
    LET y == Normalize(intens)
        end == PeriodEndIdx(y)
        xt == SubSeq(g, 1, end)
        yt == SubSeq(y, 1, end)
        st == SubSeq(Slopes(y), 1, end)
        mask == IgnoreMask(yt, ign)
        xk == BoolSelect(xt, mask)
        yk == BoolSelect(yt, mask)
        sk == BoolSelect(st, mask)
        locals == [NoCurve EXCEPT !.period_end_idx = end,
                                  !.argmin = ArgMin(yt),
                                  !.discarded = Discarded(yt, ign),
                                  !.kept_x = xk]
    IN IF Len(xk) = 0
       THEN [locals EXCEPT !.raised = TRUE]         \* np.argmin of an empty array
       ELSE LET unfolded == Unfold(yk, sk)
                phases == Stitch(unfolded)
            IN IF NeedsFinalPoint(g, xk)
               THEN [locals EXCEPT !.zero_idx = ZeroIdx(unfolded),
                                   !.x = Append(xk, GMax),
                                   !.phases = Append(phases, 2 * PI)]
               ELSE [locals EXCEPT !.zero_idx = ZeroIdx(unfolded),
                                   !.x = xk,
                                   !.phases = phases]

----------------------------------------------------------------------------
(* Inputs of map_grayscale_to_phase *)

Levels == {0, 2500, 5000, 7500, 10000}

\* raw intensities above 1 whose normalisation is exact
RawLevels == {0, 10000, 20000}

GridSteps == {400}

\* np.linspace(0, 1023, n).astype(int) (line 192)
Linspace(n) == [i \in 1..n |-> IF n = 1 THEN 0 ELSE (GMax * (i - 1)) \div (n - 1)]

\* an ordered grid of the given step, saturating at 1023
StepGrid(n, step) == [i \in 1..n |-> MinInt(GMax, (i - 1) * step)]

Grids(n) == {Linspace(n)} \cup {StepGrid(n, step) : step \in GridSteps}

\* the sweep of the end-to-end scenario: grayscales 0, 100, ..., 1000 and
\* intensities cos^2(pi*g/2046)
ScenarioGrayscales == StepGrid(11, 100)

ScenarioIntensities == <<10000, 9766, 9086, 8024, 6679, 5177, 3658, 2265, 1127, 352, 12>>

Sweeps ==
    SeqsOf(Levels, 0, MaxSweep)
    \cup {s \in SeqsOf(RawLevels, 1, MaxSweep) : NpMax(s) = 20000}

InitMap ==
    /\ pc = "ready"
    /\ \/ /\ intensities \in Sweeps
          /\ grayscales \in Grids(Len(intensities))
          /\ ignored_samples \in 0..MaxIgnored
       \/ /\ intensities = ScenarioIntensities
          /\ grayscales = ScenarioGrayscales
          /\ ignored_samples = 1
    /\ curve = NoCurve
    /\ target = <<>>
    /\ xs = <<>>
    /\ ys = <<>>
    /\ interp = NoInterp
    /\ PiecesIdle

\* the call raises ValueError (np.max or np.argmin of an empty array)
MapRaise ==
    /\ pc = "ready"
    /\ curve' = map_grayscale_to_phase(grayscales, intensities, ignored_samples)
    /\ curve'.raised
    /\ pc' = "raised"
    /\ UNCHANGED <<grayscales, intensities, ignored_samples, interpVars, pieceVars>>

\* the call returns x, phases (line 289)
MapReturn ==
    /\ pc = "ready"
    /\ curve' = map_grayscale_to_phase(grayscales, intensities, ignored_samples)
    /\ ~curve'.raised
    /\ pc' = "returned"
    /\ UNCHANGED <<grayscales, intensities, ignored_samples, interpVars, pieceVars>>

NextMap == MapRaise \/ MapReturn

SpecMap == InitMap /\ [][NextMap]_vars

----------------------------------------------------------------------------
(* Claims about map_grayscale_to_phase, checked under SpecMap *)

Last(s) == s[Len(s)]

\* the synthetic final point (1023, 2 pi) follows the kept samples
FinalPointPresent ==
    /\ Len(curve.x) = Len(curve.kept_x) + 1
    /\ Last(curve.x) = GMax
    /\ Last(curve.phases) = 2 * PI

\* the curve is the kept samples, nothing added
FinalPointAbsent == curve.x = curve.kept_x

\* C4 (as stated): the synthetic final point is present if and only if the
\* last grayscale of the input sweep is not 1023.
C4_FinalPointIffInputLast ==
    pc = "returned" => (FinalPointPresent <=> Last(grayscales) # GMax)

\* C4 (amended): the synthetic final point is present if and only if the last
\* grayscale kept after the period truncation and the minimum exclusion is
\* not 1023.
C4_FinalPointIffKeptLast ==
    pc = "returned" =>
        /\ FinalPointPresent <=> Last(curve.kept_x) # GMax
        /\ FinalPointAbsent <=> Last(curve.kept_x) = GMax

\* C4 witness: the input sweep ends on 1023, the kept samples do not, and the
\* final point was appended
C4_Witness ==
    /\ pc = "returned" /\ Last(grayscales) = GMax /\ Last(curve.kept_x) # GMax
    /\ FinalPointPresent

\* intensity rises from the first sample to one maximum, falls to one
\* minimum, and rises from there on, strictly (no plateau, no jitter)
ValidSweep(y) ==
    \E k \in 2..Len(y) : \E m \in (k + 1)..Len(y) :
        /\ \A i \in 1..(k - 1) : y[i] < y[i + 1]
        /\ \A i \in k..(m - 1) : y[i] > y[i + 1]
        /\ \A i \in m..(Len(y) - 1) : y[i] < y[i + 1]

NonDecreasing(s) == \A i \in 1..(Len(s) - 1) : s[i] <= s[i + 1]

\* C5: for every valid single-period sweep the returned phases are
\* non-decreasing in grayscale order, across the stitching point and the
\* appended final point.
C5_PhasesNonDecreasing ==
    (pc = "returned" /\ ValidSweep(intensities)) =>
        NonDecreasing(curve.phases) /\ NonDecreasing(curve.x)

\* C5 witness: a valid sweep whose curve was stitched (samples before zero_idx
\* moved down by pi) and extended by the final point
C5_Witness ==
    /\ pc = "returned" /\ ValidSweep(intensities)
    /\ curve.zero_idx > 0 /\ Len(curve.phases) >= 4 /\ FinalPointPresent
    /\ NonDecreasing(curve.phases)

\* no index from 1 onward satisfies the period-end predicate
NoPeriodEnd ==
    LET delim == PeriodDelim(Normalize(intensities))
    IN \A i \in 2..Len(intensities) : ~delim[i]

\* C6: when no sample from index 1 onward satisfies the period-end predicate,
\* nothing is truncated: every sample of the sweep reaches the exclusion step.
C6_NoPeriodEndKeepsAll ==
    (pc # "ready" /\ Len(intensities) >= 1 /\ NoPeriodEnd) =>
        curve.period_end_idx = Len(intensities)

\* the window [max(0, m - ignored_samples), min(last, m + ignored_samples)]
ClampedWindow(m, last) ==
    {i \in 0..last : MaxInt(0, m - ignored_samples) <= i
                     /\ i <= MinInt(last, m + ignored_samples)}

\* C7: the samples discarded around the minimum at index m are exactly those
\* of index max(0, m - ignored_samples) .. min(last, m + ignored_samples); the
\* minimum itself is always discarded.
C7_WindowClipped ==
    (pc # "ready" /\ Len(intensities) >= 1) =>
        /\ curve.discarded = ClampedWindow(curve.argmin, curve.period_end_idx - 1)
        /\ curve.argmin \in curve.discarded

IsScenario ==
    /\ grayscales = ScenarioGrayscales
    /\ intensities = ScenarioIntensities
    /\ ignored_samples = 1

\* C8: the end-to-end scenario returns a curve whose phases are monotonic,
\* start at 0 and end at 2 pi on the appended point (grayscale 1023), with at
\* least 3 retained samples of the sweep.
C8_ScenarioSucceeds ==
    (IsScenario /\ pc # "ready") =>
        /\ pc = "returned"
        /\ Len(curve.kept_x) >= 3
        /\ NonDecreasing(curve.phases)
        /\ curve.phases[1] = 0
        /\ FinalPointPresent

\* the number of indices of the Python slice [a:b] of an array of length n,
\* for b > 0
SliceLen(n, a, b) ==
    LET start == IF a < 0 THEN MaxInt(0, n + a) ELSE MinInt(a, n)
    IN MaxInt(0, MinInt(b, n) - start)

FinalPointCount == IF Last(curve.kept_x) # GMax THEN 1 ELSE 0

----------------------------------------------------------------------------
(* The inverse lookup of PhaseCorrector.generate_pattern (calib_tools.py   *)
(* lines 362-363): the curve of map_grayscale_to_phase is read backwards,  *)
(* x = phase, y = grayscale.  InverseAtKnots is that lookup for a pattern  *)
(* row made of the phase knots themselves.                                 *)

InitRound ==
    /\ pc = "ready"
    /\ intensities \in SeqsOf(Levels, 1, MaxRound)
    /\ grayscales \in Grids(Len(intensities))
    /\ ignored_samples \in 0..MaxIgnored
    /\ curve = NoCurve
    /\ target = <<>>
    /\ xs = <<>>
    /\ ys = <<>>
    /\ interp = NoInterp
    /\ PiecesIdle

\* mutant: the lookup made with the phases as ordinates too
InverseAtKnots_PhaseOrdinates ==
    /\ pc = "returned"
    /\ target' = curve.phases
    /\ xs' = curve.phases
    /\ ys' = curve.phases
    /\ interp' = linear_interpolation(target', xs', ys')
    /\ pc' = IF interp'.raised THEN "raised" ELSE "inverted"
    /\ UNCHANGED <<mapVars, pieceVars>>

\* lines 362-363: grayscale, phase = map_grayscale_to_phase(...);
\* linear_interpolation(pattern[row, :], phase, grayscale)
InverseAtKnots ==
    /\ pc = "returned"
    /\ target' = curve.phases
    /\ xs' = curve.phases
    /\ ys' = curve.x
    /\ interp' = linear_interpolation(target', xs', ys')
    /\ pc' = IF interp'.raised THEN "raised" ELSE "inverted"
    /\ UNCHANGED <<mapVars, pieceVars>>

NextRound == MapRaise \/ MapReturn \/ InverseAtKnots

SpecRound == InitRound /\ [][NextRound]_vars

\* C11 (as stated): for every curve returned by map_grayscale_to_phase,
\* the inverse interpolation at each phase knot p_i returns the grayscale
\* knot g_i.
C11_RoundTrip ==
    pc = "inverted" =>
        \A i \in 1..Len(curve.x) : FEqInt(interp.result[i], curve.x[i])

\* C11 (amended): the round trip holds for every returned curve whose phase
\* knots are strictly ascending.
C11_RoundTripStrict ==
    (pc = "inverted" /\ StrictlyAscending(curve.phases)) =>
        \A i \in 1..Len(curve.x) : FEqInt(interp.result[i], curve.x[i])

\* a returned curve of at least three strictly ascending knots was inverted
C11_Witness ==
    /\ pc = "inverted"
    /\ Len(curve.x) >= 3
    /\ StrictlyAscending(curve.phases)

----------------------------------------------------------------------------
(* PhaseCorrector.generate_pattern (calib_tools.py lines 356-366)          *)
(*                                                                         *)
(* A matrix is the sequence of its rows.  An entry of the correction table *)
(* is an array with its number of dimensions: data holds its rows, a       *)
(* single row when the array is one-dimensional.  Image values are         *)
(* integers in units of 1/ImgOne, so that image * 2 pi is a whole number   *)
(* of phase units.                                                         *)

ImgOne == 8

\* pixel values 0, 3/8 and 9/8: phases 0, 3 pi/4 and 9 pi/4
ImgVals == {0, 3, 9}

Array2(g, y) == [ndim |-> 2, data |-> <<g, y>>]

Array1(v) == [ndim |-> 1, data |-> <<v>>]

\* ndarray.T of a matrix
Transpose(m) ==
    IF Len(m) = 0 THEN <<>>
    ELSE [c \in 1..Len(m[1]) |-> [r \in 1..Len(m) |-> m[r][c]]]

\* ndarray.shape of a matrix
Shape(m) == <<Len(m), IF Len(m) = 0 THEN 0 ELSE Len(m[1])>>

\* line 357: image.T * 2 * np.pi
PhasePattern(img) ==
    LET t == Transpose(img)
    IN [r \in 1..Len(t) |-> [c \in 1..Len(t[r]) |-> (t[r][c] * 2 * PI) \div ImgOne]]

\* lines 262-264 seen from the caller: intensities is the view
\* correction_data[row][1, :], and y /= np.max(y) writes through it
NormalizedInPlace(entry) ==
    IF Len(entry.data[2]) = 0 THEN entry
    ELSE Array2(entry.data[1], Normalize(entry.data[2]))

\* line 363 done: the row's outcome once linear_interpolation has run
RowOutcome(li, after) ==
    IF li.raised
    THEN [error |-> "ValueError", entry |-> after, result |-> <<>>]
    ELSE [error |-> "", entry |-> after, result |-> li.result]

\* line 363: the inverse lookup of the row in the curve c of line 362
LookupRow(prow, c, after) ==
    IF c.raised
    THEN [error |-> "ValueError", entry |-> after, result |-> <<>>]
    ELSE RowOutcome(linear_interpolation(prow, c.phases, c.x), after)

\* lines 362-363 for one row of the pattern; entry is correction_data[row]
CorrectRow(prow, entry, ign) ==
    IF entry.ndim # 2
    THEN [error |-> "IndexError", entry |-> entry, result |-> <<>>]   \* [0, :] on a 1-D array
    ELSE LookupRow(prow, map_grayscale_to_phase(entry.data[1], entry.data[2], ign),
                   NormalizedInPlace(entry))

\* the state the loop of lines 361-364 stops in, given the outcome of each
\* row: the rows up to the first that raises have run
LoopOutcome(each, table) ==
    LET failed == {row \in 1..Len(each) : each[row].error # ""}
        stop == IF failed = {} THEN Len(each) + 1
                ELSE CHOOSE row \in failed : \A other \in failed : row <= other
    IN [error |-> IF failed = {} THEN "" ELSE each[stop].error,
        table |-> [row \in 1..Len(table) |->
                      IF row <= stop /\ row <= Len(each) THEN each[row].entry
                      ELSE table[row]],
        rows |-> [row \in 1..(stop - 1) |-> each[row].result]]

\* lines 361-364; correction_data[row] is an IndexError past the table's end
CorrectLoop(pat, table, ign) ==
    LoopOutcome([row \in 1..Len(pat) |->
                    IF row > Len(table)
                    THEN [error |-> "IndexError", entry |-> Array1(<<>>), result |-> <<>>]
                    ELSE CorrectRow(pat[row], table[row], ign)],
                table)

\* line 365: np.stack(corrected_grayscales, dtype=int).  The rows are float64
\* arrays and np.stack casts with casting='same_kind', which does not allow
\* float64 -> int: TypeError.  An empty list is a ValueError.
StackInt(rows) ==
    IF Len(rows) = 0 THEN [error |-> "ValueError", stacked |-> <<>>]
    ELSE [error |-> "TypeError", stacked |-> <<>>]

\* lines 365-366 after the loop
StackAndReturn(loop) ==
    IF loop.error # ""
    THEN [error |-> loop.error, stage |-> "loop", rows |-> loop.rows,
          pattern |-> <<>>, table |-> loop.table]
    ELSE [error |-> StackInt(loop.rows).error, stage |-> "stack", rows |-> loop.rows,
          pattern |-> Transpose(StackInt(loop.rows).stacked), table |-> loop.table]

generate_pattern(img, table, ign) ==
    StackAndReturn(CorrectLoop(PhasePattern(img), table, ign))

----------------------------------------------------------------------------
(* Inputs of generate_pattern *)

\* a single-period sweep of five samples, intensities within [0, 1]
EntryUnit == Array2(Linspace(5), <<5000, 10000, 5000, 0, 5000>>)

\* the same sweep with raw intensities, maximum 2
EntryRaw == Array2(Linspace(5), <<10000, 20000, 10000, 0, 10000>>)

\* a sweep without period end: map_grayscale_to_phase raises
EntryNoPeriod == Array2(Linspace(3), <<0, 10000, 0>>)

\* a one-dimensional entry, as lines 351-353 build them
EntryFlat == Array1(<<0, 10000, 0>>)

CorrEntries == {EntryUnit, EntryRaw, EntryNoPeriod, EntryFlat}

IgnoreVals == {1}

InitCorr ==
    /\ pc = "ready"
    /\ \E h \in 1..MaxHeight : \E w \in 1..MaxWidth :
          /\ image \in [1..h -> [1..w -> ImgVals]]
          /\ correction_data \in SeqsOf(CorrEntries, w - 1, w)
    /\ ignored_samples \in IgnoreVals
    /\ corrected = NoCorrected
    /\ debug = FALSE
    /\ wl_save = TRUE
    /\ SLMIdle
    /\ GeneratorsIdle
    /\ CheckIdle
    /\ MeasureIdle
    /\ target = <<>>
    /\ xs = <<>>
    /\ ys = <<>>
    /\ interp = NoInterp
    /\ grayscales = <<>>
    /\ intensities = <<>>
    /\ curve = NoCurve

\* generate_pattern raises inside the loop (lines 361-364)
GeneratePatternRaiseRow ==
    /\ pc = "ready"
    /\ corrected' = generate_pattern(image, correction_data, ignored_samples)
    /\ corrected'.stage = "loop"
    /\ correction_data' = corrected'.table
    /\ pc' = "raised"
    /\ UNCHANGED <<image, interpVars, mapVars, slmVars, genVars, errVars, measVars>>

\* every row was corrected and np.stack raises (line 365)
GeneratePatternRaiseStack ==
    /\ pc = "ready"
    /\ corrected' = generate_pattern(image, correction_data, ignored_samples)
    /\ corrected'.stage = "stack"
    /\ corrected'.error # ""
    /\ correction_data' = corrected'.table
    /\ pc' = "raised"
    /\ UNCHANGED <<image, interpVars, mapVars, slmVars, genVars, errVars, measVars>>

NextCorr == GeneratePatternRaiseRow \/ GeneratePatternRaiseStack

SpecCorr == InitCorr /\ [][NextCorr]_vars

\* C12: generate_pattern never mutates the stored correction table: after
\* it returns or raises, 'Correction data' is element for element what it
\* was before the call, also for rows whose maximum intensity exceeds 1.
C12_TableUnchanged == [][correction_data' = correction_data]_vars

\* C13: generate_pattern returns a pattern of exactly the (height, width)
\* shape of the SLM image, whenever the table gave one corrected row per
\* image column.
C13_SameShape ==
    (pc # "ready" /\ Len(corrected.rows) = Len(image[1])) =>
        /\ corrected.error = ""
        /\ Shape(corrected.pattern) = Shape(image)

----------------------------------------------------------------------------
(* SLMPiece (pzp.py) and the send action of the pattern generators         *)
(* (patterns.py, pzp_utilities.py).                                        *)
(*                                                                         *)
(* The driver is the environment: each of its calls returns a status       *)
(* chosen from StatusVals.  calls is the list of the driver calls made by  *)
(* the last operation, outcome what that operation did: the error it       *)
(* raised ("" when it returned) and the value it returned.                 *)

StatusVals == {SLM_OK, SLM_NG}

\* pzp.py line 10, (height, width)
dummy_SLM_dimension == <<1200, 1920>>

\* (height, width) of the display, as SLM_Disp_Info reports them
DeviceDimension == <<2, 2>>

PixVals == {0, 1023}

\* np.zeros(slm_dim), np.ones(slm_dim) * phase
Full(dim, v) == [r \in 1..dim[1] |-> [c \in 1..dim[2] |-> v]]

\* the arrays given to the 'image' parameter: of the display's shape, of the
\* debug mode's dummy shape, and of another
Images ==
    {Full(DeviceDimension, v) : v \in PixVals}
        \cup {<<<<0, 1023>>>>, Full(dummy_SLM_dimension, 0)}

Call(fn, status) == [fn |-> fn, status |-> status]

Outcome(op, error, returned) == [op |-> op, error |-> error, returned |-> returned]

InitSLM ==
    /\ debug \in BOOLEAN
    /\ wl_save \in BOOLEAN
    /\ SLMIdle
    /\ GeneratorsIdle
    /\ CheckIdle
    /\ MeasureIdle
    /\ image = <<>>
    /\ correction_data = <<>>
    /\ corrected = NoCorrected
    /\ pc = "ready"
    /\ target = <<>>
    /\ xs = <<>>
    /\ ys = <<>>
    /\ interp = NoInterp
    /\ grayscales = <<>>
    /\ intensities = <<>>
    /\ ignored_samples = 0
    /\ curve = NoCurve

notSLM == <<pc, interpVars, mapVars, correction_data, corrected, genVars, errVars, measVars>>

\* connect, lines 44-67: the 'connected' checkbox is ticked
Connect ==
    /\ connected # TRUE
    /\ IF debug
       THEN /\ slm_dimensions' = dummy_SLM_dimension
            /\ connected' = TRUE
            /\ calls' = <<>>
            /\ outcome' = Outcome("connect", "", "1")
            /\ UNCHANGED <<wavelength, slm_phase, device>>
       ELSE \E disp_status, ctrl_status, info_status, read_status \in StatusVals :
            /\ calls' = <<Call("SLM_Disp_Open", disp_status),
                          Call("SLM_Ctrl_Open", ctrl_status),
                          Call("SLM_Disp_Info", info_status),
                          Call("SLM_Ctrl_ReadWL", read_status)>>
            /\ device' = [device EXCEPT !.disp_open = @ \/ disp_status = SLM_OK,
                                        !.ctrl_open = @ \/ ctrl_status = SLM_OK]
            /\ IF disp_status = SLM_OK /\ ctrl_status = SLM_OK
               THEN /\ slm_dimensions' = IF info_status = SLM_OK THEN DeviceDimension
                                         ELSE <<0, 0>>
                    /\ wavelength' = IF read_status = SLM_OK THEN device.wavelength ELSE 0
                    /\ slm_phase' = IF read_status = SLM_OK THEN device.phase ELSE 0
                    /\ connected' = TRUE
                    /\ outcome' = Outcome("connect", "", "1")
               ELSE /\ connected' = FALSE
                    /\ outcome' = Outcome("connect", "", "0")
                    /\ UNCHANGED <<slm_dimensions, wavelength, slm_phase>>
    /\ UNCHANGED <<debug, wl_save, image, notSLM>>

\* disconnect, lines 69-75: the checkbox is cleared
Disconnect ==
    /\ connected = TRUE
    /\ IF debug
       THEN calls' = <<>> /\ UNCHANGED device
       ELSE \E disp_status, ctrl_status \in StatusVals :
            /\ calls' = <<Call("SLM_Disp_Close", disp_status),
                          Call("SLM_Ctrl_Close", ctrl_status)>>
            /\ device' = [device EXCEPT
                             !.disp_open = IF disp_status = SLM_OK THEN FALSE ELSE @,
                             !.ctrl_open = IF ctrl_status = SLM_OK THEN FALSE ELSE @]
    /\ connected' = FALSE
    /\ outcome' = Outcome("disconnect", "", "0")
    /\ UNCHANGED <<debug, wl_save, slm_dimensions, wavelength, slm_phase, image, notSLM>>

\* image_setter(value), lines 81-94, called by op.  When the setter returns
\* None the parameter keeps the value its getter (lines 77-79) reads back.
image_setter(op, value) ==
    IF connected # TRUE
    THEN /\ outcome' = Outcome(op, "", "None")
         /\ calls' = <<>>
         /\ UNCHANGED <<image, device>>
    ELSE IF slm_dimensions # Shape(value)
    THEN /\ outcome' = Outcome(op, "ValueError", "")
         /\ calls' = <<>>
         /\ UNCHANGED <<image, device>>
    ELSE IF debug
    THEN /\ outcome' = Outcome(op, "", "value")
         /\ calls' = <<>>
         /\ image' = value
         /\ UNCHANGED device
    ELSE \E status \in StatusVals :
         /\ calls' = <<Call("SLM_Disp_Data", status)>>
         /\ device' = [device EXCEPT !.shown = IF status = SLM_OK THEN value ELSE @]
         /\ image' = value
         /\ outcome' = Outcome(op, "", "value")

\* the 'image' parameter is set directly
SetImage ==
    /\ \E value \in Images : image_setter("image", value)
    /\ UNCHANGED <<debug, wl_save, connected, slm_dimensions, wavelength, slm_phase, notSLM>>

\* mutant: updateslm without the return of debug mode
UpdateSLM_IgnoresDebug ==
    /\ IF connected # TRUE
       THEN /\ calls' = <<>>
            /\ outcome' = Outcome("updateslm", "", "None")
            /\ UNCHANGED device
       ELSE \E status \in StatusVals :
            /\ calls' = <<Call("SLM_Ctrl_WriteWL", status)>>
            /\ outcome' = Outcome("updateslm",
                                  IF status # SLM_OK THEN "RuntimeError" ELSE "",
                                  IF status # SLM_OK THEN "" ELSE "None")
            /\ device' = IF status # SLM_OK THEN device
                         ELSE [device EXCEPT !.wavelength = wavelength, !.phase = slm_phase]
    /\ UNCHANGED <<debug, wl_save, connected, slm_dimensions, wavelength, slm_phase,
                   image, notSLM>>

\* updateslm, lines 97-115
UpdateSLM ==
    /\ IF debug \/ connected # TRUE
       THEN /\ calls' = <<>>
            /\ outcome' = Outcome("updateslm", "", "None")
            /\ UNCHANGED device
       ELSE \E status \in StatusVals :
            IF status # SLM_OK
            THEN /\ calls' = <<Call("SLM_Ctrl_WriteWL", status)>>
                 /\ outcome' = Outcome("updateslm", "RuntimeError", "")
                 /\ UNCHANGED device
            ELSE IF ~wl_save
            THEN /\ calls' = <<Call("SLM_Ctrl_WriteWL", status)>>
                 /\ outcome' = Outcome("updateslm", "", "None")
                 /\ device' = [device EXCEPT !.wavelength = wavelength, !.phase = slm_phase]
            ELSE \E aw_status \in StatusVals :
                 /\ calls' = <<Call("SLM_Ctrl_WriteWL", status),
                               Call("SLM_Ctrl_WriteAW", aw_status)>>
                 /\ outcome' = Outcome("updateslm",
                                       IF aw_status # SLM_OK THEN "RuntimeError" ELSE "",
                                       IF aw_status # SLM_OK THEN "" ELSE "None")
                 /\ device' = [device EXCEPT !.wavelength = wavelength, !.phase = slm_phase,
                                             !.saved = @ \/ aw_status = SLM_OK]
    /\ UNCHANGED <<debug, wl_save, connected, slm_dimensions, wavelength, slm_phase,
                   image, notSLM>>

\* the dimensions for which the model builds the generated pattern
SmallDimension ==
    IF slm_dimensions = <<>> THEN TRUE
    ELSE slm_dimensions[1] <= 2 /\ slm_dimensions[2] <= 2

\* patterns.py lines 50-52, 60-72, 86-89: the 'Generate pattern' action of a
\* PatternGenerator; check_slm_status raises when the SLM is not connected
Send ==
    /\ SmallDimension
    /\ IF connected # TRUE
       THEN /\ outcome' = Outcome("send", "RuntimeError", "")
            /\ calls' = <<>>
            /\ UNCHANGED <<image, device>>
       ELSE image_setter("send", Full(slm_dimensions, 0))
    /\ UNCHANGED <<debug, wl_save, connected, slm_dimensions, wavelength, slm_phase, notSLM>>

\* pzp_utilities.py lines 12-25, 58-64: the 'Send' action of the older
\* generators; check_slm_status returns None and the action returns
UtilitiesSend ==
    /\ SmallDimension
    /\ IF connected # TRUE
       THEN /\ outcome' = Outcome("utilities_send", "", "None")
            /\ calls' = <<>>
            /\ UNCHANGED <<image, device>>
       ELSE \E v \in PixVals : image_setter("utilities_send", Full(slm_dimensions, v))
    /\ UNCHANGED <<debug, wl_save, connected, slm_dimensions, wavelength, slm_phase, notSLM>>

NextSLM == Connect \/ Disconnect \/ SetImage \/ UpdateSLM \/ Send \/ UtilitiesSend

SpecSLM == InitSLM /\ [][NextSLM]_vars

\* C15: no non-OK status returned by a driver call of the SLM piece is
\* ignored: the operation that made the call raised an error.
C15_StatusRaises ==
    \A i \in 1..Len(calls) : calls[i].status # SLM_OK => outcome.error # ""

\* C16: an attempt to send a pattern while 'connected' is not True raises,
\* by the generators' send action and by a direct set of the image
\* parameter alike, and writes nothing to the device.
C16_SendNeedsConnection ==
    (outcome.op \in {"send", "utilities_send", "image"} /\ connected # TRUE) =>
        (outcome.error # "" /\ calls = <<>>)

----------------------------------------------------------------------------
(* The pattern generators of patterns.py: generate_pattern(slm_dim)        *)
(*                                                                         *)
(* params holds the parameters of every generator piece, active is the     *)
(* piece whose generate_pattern is called and pattern what it returns.     *)
(* A coefficient of a pattern is a float, kept as a fraction.  Offsets and *)
(* widths of the slit are handled in half pixels, the duty cycle in steps  *)
(* of DutyOne-ths.                                                         *)

\* lines 99-104
UniformGenerate(p, dim) == Full(dim, Fin(p.phase, 1))

\* mutant: the ramp without the modulo
BlazedValue_NoModulo(i, period_px, max_phase) == Fin(i * max_phase, period_px - 1)

\* lines 121-122 / 126-127 at the 0-based index i
BlazedValue(i, period_px, max_phase) == Fin((i % period_px) * max_phase, period_px - 1)

\* blazed_grating, lines 118-129
BlazedGenerate(p, dim) ==
    IF p.horizontal
    THEN [r \in 1..dim[1] |-> [c \in 1..dim[2] |-> BlazedValue(c - 1, p.period, p.contrast)]]
    ELSE Transpose([c \in 1..dim[2] |->
                      [r \in 1..dim[1] |-> BlazedValue(r - 1, p.period, p.contrast)]])

\* np.arange(...) % period < period * duty_cycle at the 0-based index i
BinaryOn(i, period, duty) == (i % period) * DutyOne < period * duty

\* lines 152-162
BinaryGenerate(p, dim) ==
    [r \in 1..dim[1] |-> [c \in 1..dim[2] |->
        IF BinaryOn(IF p.horizontal THEN c - 1 ELSE r - 1, p.period, p.duty_cycle)
        THEN Fin(p.contrast, 1) ELSE Fin(0, 1)]]

\* lines 165-166
clamp(value, min_, max_) == MinInt(MaxInt(value, min_), max_)

\* Python's round(n / 2): halves go to the even neighbour
RoundHalf(n) ==
    IF n % 2 = 0 THEN n \div 2
    ELSE IF ((n - 1) \div 2) % 2 = 0 THEN (n - 1) \div 2 ELSE (n + 1) \div 2

\* lines 191-197: start and end of the slit; offset2 is twice the offset
SlitSpan(vertical, width, offset2, dim) ==
    LET slm_length_px == IF vertical THEN dim[2] ELSE dim[1]
        center2 == 2 * RoundHalf(slm_length_px) + offset2
    IN [start |-> clamp(center2 - width, 0, 2 * slm_length_px) \div 2,
        end |-> clamp(center2 + width, 0, 2 * slm_length_px) \div 2]

\* draw_slit, lines 190-201
draw_slit(pat, vertical, width, offset2, dim, phase) ==
    LET span == SlitSpan(vertical, width, offset2, dim)
    IN [r \in 1..dim[1] |-> [c \in 1..dim[2] |->
           IF span.start <= (IF vertical THEN c - 1 ELSE r - 1)
              /\ (IF vertical THEN c - 1 ELSE r - 1) < span.end
           THEN Fin(phase, 1) ELSE pat[r][c]]]

\* lines 203-219
SlitGenerate(p, dim) ==
    IF p.double
    THEN draw_slit(draw_slit(Full(dim, Fin(p.nonslit_phase, 1)), p.vertical, p.width,
                             2 * p.offset + p.distance, dim, p.slit_phase),
                   p.vertical, p.width, 2 * p.offset - p.distance, dim, p.slit_phase)
    ELSE draw_slit(Full(dim, Fin(p.nonslit_phase, 1)), p.vertical, p.width,
                   2 * p.offset, dim, p.slit_phase)

\* line 248 at the 0-based pixel (yy, xx), both sides multiplied by 4
PinholeMask(yy, xx, p, dim) ==
    (2 * xx - 2 * p.offset_x - dim[2]) * (2 * xx - 2 * p.offset_x - dim[2])
    + (2 * yy - 2 * p.offset_y - dim[1]) * (2 * yy - 2 * p.offset_y - dim[1])
    < 4 * p.radius * p.radius

\* lines 238-250
PinholeGenerate(p, dim) ==
    [r \in 1..dim[1] |-> [c \in 1..dim[2] |->
        IF PinholeMask(r - 1, c - 1, p, dim) THEN Fin(p.slit_phase, 1)
        ELSE Fin(p.nonslit_phase, 1)]]

BasicPieces ==
    {"UniformPattern", "BlazedGratingPattern", "BinaryGratingPattern", "SlitPattern",
     "PinholePattern"}

\* generate_pattern of the named piece
GenerateBasic(piece, ps, dim) ==
    CASE piece = "UniformPattern" -> UniformGenerate(ps.UniformPattern, dim)
      [] piece = "BlazedGratingPattern" -> BlazedGenerate(ps.BlazedGratingPattern, dim)
      [] piece = "BinaryGratingPattern" -> BinaryGenerate(ps.BinaryGratingPattern, dim)
      [] piece = "SlitPattern" -> SlitGenerate(ps.SlitPattern, dim)
      [] piece = "PinholePattern" -> PinholeGenerate(ps.PinholePattern, dim)

----------------------------------------------------------------------------
(* Inputs of the generators: values at the ends of the spinbox ranges and  *)
(* inside them                                                             *)

Dimensions == {<<h, w>> : h \in 1..MaxSide, w \in 1..MaxSide}

UniformInputs == {[phase |-> ph] : ph \in {0, 512, 1023}}

BlazedInputs ==
    {[period |-> pe, contrast |-> ph, horizontal |-> hz] :
        pe \in {2, 3, 3000}, ph \in {0, 512, 1023}, hz \in BOOLEAN}

BinaryInputs ==
    {[contrast |-> ph, period |-> pe, duty_cycle |-> du, horizontal |-> hz] :
        ph \in {0, 512, 1023}, pe \in {2, 3, 1023}, du \in {0, 10, 20}, hz \in BOOLEAN}

SlitInputs ==
    {[vertical |-> ve, width |-> wi, offset |-> off, double |-> FALSE,
      distance |-> DefaultParams.SlitPattern.distance, slit_phase |-> sp,
      nonslit_phase |-> np] :
        ve \in BOOLEAN, wi \in {1, 2, 1000}, off \in {-1000, -1, 0, 1, 1000}, sp \in {0, 1023},
        np \in {0, 1023}}
    \cup
    {[vertical |-> ve, width |-> wi, offset |-> off, double |-> TRUE,
      distance |-> di, slit_phase |-> sp, nonslit_phase |-> np] :
        ve \in BOOLEAN, wi \in {1, 2, 1000}, off \in {-1, 0, 1}, di \in {1, 2, 1000},
        sp \in {0, 1023}, np \in {0, 1023}}

PinholeInputs ==
    {[radius |-> ra, offset_x |-> ox, offset_y |-> oy, slit_phase |-> sp,
      nonslit_phase |-> np] :
        ra \in {1, 2, 1000}, ox \in {-1000, -1, 0, 1, 1000}, oy \in {-1, 0, 1000}, sp \in {0, 1023},
        np \in {0, 1023}}

\* the state of everything but the generators: the SLM is connected or not
GenContext ==
    /\ pc = "ready"
    /\ connected \in BOOLEAN
    /\ slm_dimensions \in Dimensions
    /\ debug = FALSE
    /\ wl_save = TRUE
    /\ wavelength = DeviceSettings.wavelength
    /\ slm_phase = DeviceSettings.phase
    /\ device = [disp_open |-> connected, ctrl_open |-> connected, shown |-> <<>>,
                 wavelength |-> DeviceSettings.wavelength, phase |-> DeviceSettings.phase,
                 saved |-> FALSE]
    /\ calls = <<>>
    /\ outcome = NoOutcome
    /\ image = <<>>
    /\ correction_data = <<>>
    /\ corrected = NoCorrected
    /\ target = <<>>
    /\ xs = <<>>
    /\ ys = <<>>
    /\ interp = NoInterp
    /\ grayscales = <<>>
    /\ intensities = <<>>
    /\ ignored_samples = 0
    /\ curve = NoCurve

InitGen ==
    /\ GenContext
    /\ CheckIdle
    /\ MeasureIdle
    /\ pattern = <<>>
    /\ \/ /\ active = "UniformPattern"
          /\ \E p \in UniformInputs : params = [DefaultParams EXCEPT !.UniformPattern = p]
       \/ /\ active = "BlazedGratingPattern"
          /\ \E p \in BlazedInputs : params = [DefaultParams EXCEPT !.BlazedGratingPattern = p]
       \/ /\ active = "BinaryGratingPattern"
          /\ \E p \in BinaryInputs : params = [DefaultParams EXCEPT !.BinaryGratingPattern = p]
       \/ /\ active = "SlitPattern"
          /\ \E p \in SlitInputs : params = [DefaultParams EXCEPT !.SlitPattern = p]
       \/ /\ active = "PinholePattern"
          /\ \E p \in PinholeInputs : params = [DefaultParams EXCEPT !.PinholePattern = p]

notGen == <<target, xs, ys, interp, mapVars, corrVars, slmVars, params, active, errVars,
           measVars>>

\* generate_pattern raises: check_slm_status (lines 60-72), which every
\* generator but UniformPattern calls itself, finds the SLM not connected
GenerateRaise ==
    /\ pc = "ready"
    /\ active \in BasicPieces \ {"UniformPattern"}
    /\ connected # TRUE
    /\ pc' = "raised"
    /\ UNCHANGED <<pattern, notGen>>

\* generate_pattern(slm_dim) returns the pattern
GenerateReturn ==
    /\ pc = "ready"
    /\ active \in BasicPieces
    /\ active = "UniformPattern" \/ connected = TRUE
    /\ pattern' = GenerateBasic(active, params, slm_dimensions)
    /\ pc' = "returned"
    /\ UNCHANGED notGen

NextGen == GenerateRaise \/ GenerateReturn

SpecGen == InitGen /\ [][NextGen]_vars

\* C17: for every parameter combination inside the spinbox ranges and
\* every device dimension, the pattern returned by UniformPattern,
\* BlazedGratingPattern, BinaryGratingPattern, SlitPattern and
\* PinholePattern has the shape (height, width) exactly, and every
\* coefficient lies in [0, 1023].
C17_ShapeAndRange ==
    (pc = "returned" /\ active \in BasicPieces) =>
        /\ Shape(pattern) = slm_dimensions
        /\ \A r \in 1..Len(pattern) : \A c \in 1..Len(pattern[r]) :
              FBetween(pattern[r][c], 0, GMax)

\* a blazed grating of three pixels or more along its ramp, period 2 and
\* full contrast, was returned
C17_Witness ==
    /\ pc = "returned"
    /\ active = "BlazedGratingPattern"
    /\ params.BlazedGratingPattern.period = 2
    /\ params.BlazedGratingPattern.contrast = GMax
    /\ slm_dimensions = <<MaxSide, MaxSide>>
    /\ \E r \in 1..Len(pattern) : \E c \in 1..Len(pattern[r]) : FEqInt(pattern[r][c], GMax)

----------------------------------------------------------------------------
(* PatternMultiplier.generate_pattern, patterns.py lines 253-272           *)

\* the pairs of pixel values of the model for which the float product
\* (a / 1023.0) * (b / 1023.0) * 1023 falls just below the integer a * b / 1023
ProductFallsShort(a, b) ==
    \/ FEqInt(a, 21) /\ FEqInt(b, 341)
    \/ FEqInt(a, 341) /\ FEqInt(b, 21)

\* mutant: the product without the division by 1023
MultiplyPixel_Unscaled(a, b) == (a.n * b.n) \div (a.d * b.d)

\* one coefficient of (pattern1 * pattern2 * 1023).astype(int), lines 268-271
MultiplyPixel(a, b) ==
    IF ProductFallsShort(a, b)
    THEN (a.n * b.n) \div (a.d * b.d * GMax) - 1
    ELSE (a.n * b.n) \div (a.d * b.d * GMax)

\* lines 268-271 on the patterns of the two generators
MultiplyPatterns(pattern1, pattern2) ==
    [r \in 1..Len(pattern1) |-> [c \in 1..Len(pattern1[r]) |->
        MultiplyPixel(pattern1[r][c], pattern2[r][c])]]

\* lines 267-272
MultiplierGenerate(ps, dim) ==
    MultiplyPatterns(GenerateBasic(ps.PatternMultiplier.gen1, ps, dim),
                     GenerateBasic(ps.PatternMultiplier.gen2, ps, dim))

\* the generators the multiplier is pointed at, and their parameters
MultiplierGens == {"UniformPattern", "BlazedGratingPattern", "BinaryGratingPattern",
                   "SlitPattern"}

MulUniformInputs == {[phase |-> ph] : ph \in {0, 21, 341, 1023}}

MulBlazedInputs ==
    {[period |-> 3, contrast |-> ph, horizontal |-> hz] : ph \in {341, 1023}, hz \in BOOLEAN}

MulBinaryInputs ==
    {[contrast |-> ph, period |-> 2, duty_cycle |-> 10, horizontal |-> hz] :
        ph \in {21, 1023}, hz \in BOOLEAN}

InitMul ==
    /\ GenContext
    /\ CheckIdle
    /\ MeasureIdle
    /\ pattern = <<>>
    /\ active = "PatternMultiplier"
    /\ \E g1 \in MultiplierGens, g2 \in MultiplierGens, u \in MulUniformInputs,
          bl \in MulBlazedInputs, bi \in MulBinaryInputs :
          params = [DefaultParams EXCEPT !.UniformPattern = u,
                                         !.BlazedGratingPattern = bl,
                                         !.BinaryGratingPattern = bi,
                                         !.PatternMultiplier = [gen1 |-> g1, gen2 |-> g2]]

\* one of the two generators calls check_slm_status and the SLM is not
\* connected: the RuntimeError leaves generate_pattern
MultiplyRaise ==
    /\ pc = "ready"
    /\ active = "PatternMultiplier"
    /\ connected # TRUE
    /\ \/ params.PatternMultiplier.gen1 # "UniformPattern"
       \/ params.PatternMultiplier.gen2 # "UniformPattern"
    /\ pc' = "raised"
    /\ UNCHANGED <<pattern, notGen>>

\* generate_pattern(slm_dim) returns the blended pattern
MultiplyReturn ==
    /\ pc = "ready"
    /\ active = "PatternMultiplier"
    /\ \/ connected = TRUE
       \/ /\ params.PatternMultiplier.gen1 = "UniformPattern"
          /\ params.PatternMultiplier.gen2 = "UniformPattern"
    /\ pattern' = MultiplierGenerate(params, slm_dimensions)
    /\ pc' = "returned"
    /\ UNCHANGED notGen

NextMul == MultiplyRaise \/ MultiplyReturn

SpecMul == InitMul /\ [][NextMul]_vars

\* the pattern of generator 1 and of generator 2 in the current state
Pattern1 == GenerateBasic(params.PatternMultiplier.gen1, params, slm_dimensions)
Pattern2 == GenerateBasic(params.PatternMultiplier.gen2, params, slm_dimensions)

\* every coefficient of pat is v
IsAll(pat, v) == \A r \in 1..Len(pat) : \A c \in 1..Len(pat[r]) : FEqInt(pat[r][c], v)

\* the integer pattern out holds the very values of pat
SameValues(out, pat) ==
    \A r \in 1..Len(pat) : \A c \in 1..Len(pat[r]) : FEqInt(pat[r][c], out[r][c])

\* the integer pattern out holds the values of pat cut to integers
Truncated(out, pat) ==
    \A r \in 1..Len(pat) : \A c \in 1..Len(pat[r]) : out[r][c] = pat[r][c].n \div pat[r][c].d

\* the generators swapped
Swapped(ps) ==
    [ps EXCEPT !.PatternMultiplier = [gen1 |-> ps.PatternMultiplier.gen2,
                                      gen2 |-> ps.PatternMultiplier.gen1]]

\* the parts of the blend law that do not depend on the inputs being integers
BlendCommon ==
    /\ \A r \in 1..Len(pattern) : \A c \in 1..Len(pattern[r]) :
          pattern[r][c] \in 0..GMax
    /\ (IsAll(Pattern1, 0) \/ IsAll(Pattern2, 0)) => IsAll([r \in 1..Len(pattern) |->
          [c \in 1..Len(pattern[r]) |-> Fin(pattern[r][c], 1)]], 0)
    /\ pattern = MultiplierGenerate(Swapped(params), slm_dimensions)

\* C20 as stated: for input patterns with values in [0,1023] every output
\* pixel of PatternMultiplier is an integer in [0,1023], multiplying by an
\* all-1023 pattern returns the other pattern unchanged, multiplying by an
\* all-0 pattern returns all zeros, and swapping generator 1 and generator 2
\* gives the same output.
C20_Blend ==
    (pc = "returned" /\ active = "PatternMultiplier") =>
        /\ BlendCommon
        /\ IsAll(Pattern2, GMax) => SameValues(pattern, Pattern1)
        /\ IsAll(Pattern1, GMax) => SameValues(pattern, Pattern2)

\* C20 amended: multiplying by an all-1023 pattern returns the other
\* pattern with every value cut to an integer, which is the other pattern
\* itself when its values are integers; the output is made of integers in
\* [0,1023], an all-0 pattern gives all zeros and the two generators can
\* be swapped.
C20_BlendTruncates ==
    (pc = "returned" /\ active = "PatternMultiplier") =>
        /\ BlendCommon
        /\ IsAll(Pattern2, GMax) => Truncated(pattern, Pattern1)
        /\ IsAll(Pattern1, GMax) => Truncated(pattern, Pattern2)

\* an all-1023 uniform pattern was multiplied with a blazed grating that
\* holds the half-integer 511.5
C20_Witness ==
    /\ pc = "returned"
    /\ active = "PatternMultiplier"
    /\ IsAll(Pattern1, GMax)
    /\ \E r \in 1..Len(pattern) : \E c \in 1..Len(pattern[r]) :
          /\ Pattern2[r][c].n * 2 = GMax * Pattern2[r][c].d
          /\ pattern[r][c] = 511

----------------------------------------------------------------------------
(* check_error of interface.py, lines 132-149, with the status codes of   *)
(* lines 33-80 and the table ERROR_MSGs of lines 83-129                    *)

SLM_BS == 2
SLM_ER == 3
SLM_INVAID_MONITOR == -1
SLM_NOT_OPEN_MONITOR == -2
SLM_OPEN_WINDOW_ERR == -3
SLM_DATA_FORMAT_ERR == -4
SLM_FILE_READ_ERR == -101
SLM_NOT_OPEN_USB == -200
SLM_OTHER_ERROR == -1000
FT_INVALID_HANDLE == -10001
FT_DEVICE_NOT_FOUND == -10002
FT_DEVICE_NOT_OPENED == -10003
FT_IO_ERROR == -10004
FT_INSUFFICIENT_RESOURCES == -10005
FT_INVALID_PARAMETER == -10006
FT_INVALID_BAUD_RATE == -10007
FT_DEVICE_NOT_OPENED_FOR_ERASE == -10008
FT_DEVICE_NOT_OPENED_FOR_WRITE == -10009
FT_FAILED_TO_WRITE_DEVICE == -10010
FT_EEPROM_READ_FAILED == -10011
FT_EEPROM_WRITE_FAILED == -10012
FT_EEPROM_ERASE_FAILED == -10013
FT_EEPROM_NOT_PRESENT == -10014
FT_EEPROM_NOT_PROGRAMMED == -10015
FT_INVALID_ARGS == -10016
FT_NOT_SUPPORTED == -10017
FT_NO_MORE_ITEMS == -10018
FT_TIMEOUT == -10019
FT_OPERATION_ABORTED == -10020
FT_RESERVED_PIPE == -10021
FT_INVALID_CONTROL_REQUEST_DIRECTION == -10022
FT_INVALID_CONTROL_REQUEST_TYPE == -10023
FT_IO_PENDING == -10024
FT_IO_INCOMPLETE == -10025
FT_HANDLE_EOF == -10026
FT_BUSY == -10027
FT_NO_SYSTEM_RESOURCES == -10028
FT_DEVICE_LIST_NOT_READY == -10029
FT_DEVICE_NOT_CONNECTED == -10030
FT_INCORRECT_DEVICE_PATH == -10031
FT_OTHER_ERROR == -10032

ERROR_MSGs ==
    (SLM_OK :> "OK")
    @@ (SLM_NG :> "NG")
    @@ (SLM_BS :> "SLM is busy")
    @@ (SLM_ER :> "parameter error")
    @@ (SLM_INVAID_MONITOR :> "display no not found")
    @@ (SLM_NOT_OPEN_MONITOR :> "display not opened")
    @@ (SLM_OPEN_WINDOW_ERR :> "window open error")
    @@ (SLM_DATA_FORMAT_ERR :> "data format error")
    @@ (SLM_FILE_READ_ERR :> "file read error (over 1023?)")
    @@ (SLM_NOT_OPEN_USB :> "USB not opened")
    @@ (SLM_OTHER_ERROR :> "other error")
    @@ (FT_INVALID_HANDLE :> "USB driver error (invalid handle)")
    @@ (FT_DEVICE_NOT_FOUND :> "device not found (check power/connection; if connected, reset power)")
    @@ (FT_DEVICE_NOT_OPENED :> "device already opened")
    @@ (FT_IO_ERROR :> "USB driver error (I/O error)")
    @@ (FT_INSUFFICIENT_RESOURCES :> "USB driver error (insufficient resources)")
    @@ (FT_INVALID_PARAMETER :> "USB driver error (invalid parameter)")
    @@ (FT_INVALID_BAUD_RATE :> "USB driver error (invalid baud rate)")
    @@ (FT_DEVICE_NOT_OPENED_FOR_ERASE :> "USB driver error (not opened for erase)")
    @@ (FT_DEVICE_NOT_OPENED_FOR_WRITE :> "USB driver error (not opened for write)")
    @@ (FT_FAILED_TO_WRITE_DEVICE :> "USB driver error (failed to write device)")
    @@ (FT_EEPROM_READ_FAILED :> "USB driver error (EEPROM read failed)")
    @@ (FT_EEPROM_WRITE_FAILED :> "USB driver error (EEPROM write failed)")
    @@ (FT_EEPROM_ERASE_FAILED :> "USB driver error (EEPROM erase failed)")
    @@ (FT_EEPROM_NOT_PRESENT :> "USB driver error (EEPROM not present)")
    @@ (FT_EEPROM_NOT_PROGRAMMED :> "USB driver error (EEPROM not programmed)")
    @@ (FT_INVALID_ARGS :> "USB driver error (invalid args)")
    @@ (FT_NOT_SUPPORTED :> "USB driver error (not supported)")
    @@ (FT_NO_MORE_ITEMS :> "USB driver error (no more items)")
    @@ (FT_TIMEOUT :> "USB driver error (timeout)")
    @@ (FT_OPERATION_ABORTED :> "USB driver error (operation aborted)")
    @@ (FT_RESERVED_PIPE :> "USB driver error (reserved pipe)")
    @@ (FT_INVALID_CONTROL_REQUEST_DIRECTION :> "USB driver error (invalid control request direction)")
    @@ (FT_INVALID_CONTROL_REQUEST_TYPE :> "USB driver error (invalid control request type)")
    @@ (FT_IO_PENDING :> "USB driver error (I/O pending)")
    @@ (FT_IO_INCOMPLETE :> "USB driver error (I/O incomplete)")
    @@ (FT_HANDLE_EOF :> "USB driver error (handle EOF)")
    @@ (FT_BUSY :> "USB driver error (busy)")
    @@ (FT_NO_SYSTEM_RESOURCES :> "USB driver error (no system resources)")
    @@ (FT_DEVICE_LIST_NOT_READY :> "USB driver error (device list not ready)")
    @@ (FT_DEVICE_NOT_CONNECTED :> "USB driver error (device not connected)")
    @@ (FT_INCORRECT_DEVICE_PATH :> "USB driver error (incorrect device path)")
    @@ (FT_OTHER_ERROR :> "USB driver error (other error)")

\* codes the driver could hand back that the table does not list
UnknownCodes == {4, -5, -102, -999, -10000, -10033}

ReturnCodes == DOMAIN ERROR_MSGs \cup UnknownCodes

HeaderMsgs == {"", "Connect:", "Display:"}

\* mutant: a code the table does not list passes
check_error_OnlyKnown(code, header) ==
    IF code = SLM_OK \/ code \notin DOMAIN ERROR_MSGs
    THEN [raised |-> "", msg |-> <<>>]
    ELSE [raised |-> "RuntimeError",
          msg |-> <<header, " SLM returned error code ", ToString(code), ". Description: ",
                    ERROR_MSGs[code]>>]

\* lines 144-149: what the call does; the message is kept as the pieces the
\* f-string is put together from, the code in decimal
check_error(code, header) ==
    IF code = SLM_OK
    THEN [raised |-> "", msg |-> <<>>]
    ELSE IF code \in DOMAIN ERROR_MSGs
         THEN [raised |-> "RuntimeError",
               msg |-> <<header, " SLM returned error code ", ToString(code), ". Description: ",
                         ERROR_MSGs[code]>>]
         ELSE [raised |-> "RuntimeError",
               msg |-> <<header, " SLM returned unknown error code.">>]

InitErr ==
    /\ GenContext
    /\ connected = FALSE
    /\ slm_dimensions = <<1, 1>>
    /\ GeneratorsIdle
    /\ MeasureIdle
    /\ return_code \in ReturnCodes
    /\ optional_header_msg \in HeaderMsgs
    /\ error_msg = <<>>

notErr == <<interpVars, mapVars, corrVars, slmVars, genVars, measVars, return_code,
            optional_header_msg>>

\* check_error(return_code, optional_header_msg) returns None
CheckErrorReturn ==
    /\ pc = "ready"
    /\ check_error(return_code, optional_header_msg).raised = ""
    /\ error_msg' = <<>>
    /\ pc' = "returned"
    /\ UNCHANGED notErr

\* check_error(return_code, optional_header_msg) raises
CheckErrorRaise ==
    /\ pc = "ready"
    /\ check_error(return_code, optional_header_msg).raised # ""
    /\ error_msg' = check_error(return_code, optional_header_msg).msg
    /\ pc' = "raised"
    /\ UNCHANGED notErr

NextErr == CheckErrorReturn \/ CheckErrorRaise

SpecErr == InitErr /\ [][NextErr]_vars

\* the piece p is part of the message msg
Carries(msg, p) == \E i \in 1..Len(msg) : msg[i] = p

\* C19: check_error raises a RuntimeError if and only if return_code is
\* not SLM_OK; for every code listed in the status table the message
\* carries that code's description, for a code not in the table it still
\* raises, with an 'unknown error code' message, and for SLM_OK it returns
\* normally with no effect.
C19_CheckError ==
    (pc # "ready") =>
        /\ (pc = "raised") <=> (return_code # SLM_OK)
        /\ (return_code # SLM_OK /\ return_code \in DOMAIN ERROR_MSGs) =>
              Carries(error_msg, ERROR_MSGs[return_code])
        /\ (return_code \notin DOMAIN ERROR_MSGs) =>
              /\ pc = "raised"
              /\ Carries(error_msg, " SLM returned unknown error code.")
        /\ (return_code = SLM_OK) => (pc = "returned" /\ error_msg = <<>>)

\* check_error raised for a code the table does not list
C19_Witness ==
    /\ pc = "raised"
    /\ return_code \in UnknownCodes
    /\ Carries(error_msg, " SLM returned unknown error code.")

----------------------------------------------------------------------------
(* 'Get correction data' of PhaseCorrector, calib_tools.py lines 337-353,  *)
(* with the sweep of UniformAndBinaryCalib.measure (lines 178-224) it      *)
(* runs.  The spectrometer is the environment: the sweep leaves data, a    *)
(* matrix of sample_nb rows and one column per wavelength normalised per   *)
(* wavelength, and wls, the wavelengths.  The plots and files of lines     *)
(* 226-235 are left out.  The image is kept in units of 1/ImgOne.          *)

\* lines 328-329: the defaults of the wavelength range
min_wl == 1050
max_wl == 1400

\* ascending wavelengths the spectrometer reports inside the measure
\* piece's range (lines 165-166, 189, 221)
SpecWavelengths == {1050, 1200, 1400, 1550}

WlsInputs ==
    {w \in SeqsOf(SpecWavelengths, 1, MaxWl) : StrictlyAscending(w)}

\* spectrums after line 217: every column has the maximum 1
DataInputs(sample_nb, n_wl) ==
    {d \in [1..sample_nb -> [1..n_wl -> {IOne \div 2, IOne}]] :
        \A j \in 1..n_wl : \E i \in 1..sample_nb : d[i][j] = IOne}

\* line 192
contrasts(sample_nb) == Linspace(sample_nb)

\* the pattern the binary grating piece sends for a contrast (lines 152-162)
SentPattern(ps, contrast, dim) ==
    [r \in 1..dim[1] |-> [c \in 1..dim[2] |->
        IF BinaryOn(IF ps.horizontal THEN c - 1 ELSE r - 1, ps.period, ps.duty_cycle)
        THEN contrast * ImgOne ELSE 0]]

\* the contrast of the k-th pattern sent: 0 first (line 199), then the sweep
SentContrast(k, sample_nb) == IF k = 1 THEN 0 ELSE contrasts(sample_nb)[k - 1]

\* what the display shows after the sends, given the status of each
ShownAfter(statuses, ps, dim, before) ==
    LET ok == {k \in 1..Len(statuses) : statuses[k] = SLM_OK}
    IN IF ok = {} THEN before
       ELSE SentPattern(ps, SentContrast(CHOOSE k \in ok : \A j \in ok : j <= k,
                                         Len(statuses) - 1), dim)

\* lines 349-350 for the 0-based column col, both sides multiplied by col_nb
calib_idx(w, col, col_nb) ==
    ArgMin([k \in 1..Len(w) |->
              Abs(w[k] * col_nb - (min_wl * col_nb + col * (max_wl - min_wl)))])

\* lines 345-353: the table, or the IndexError of data[calib_idx, :]
Calibrate(d, w, col_nb) ==
    IF \E col \in 0..(col_nb - 1) : calib_idx(w, col, col_nb) >= Len(d)
    THEN [error |-> "IndexError", table |-> <<>>]
    ELSE [error |-> "",
          table |-> [i \in 1..col_nb |-> Array1(d[calib_idx(w, i - 1, col_nb) + 1])]]

InitCalib ==
    /\ pc = "ready"
    /\ connected \in BOOLEAN
    /\ slm_dimensions \in {<<h, w>> : h \in 1..MaxHeight, w \in 1..MaxWidth}
    /\ image \in {<<>>, Full(slm_dimensions, 0)}
    /\ ignored_samples = 1
    /\ correction_data = <<>>
    /\ corrected = NoCorrected
    /\ debug = FALSE
    /\ wl_save = TRUE
    /\ wavelength = DeviceSettings.wavelength
    /\ slm_phase = DeviceSettings.phase
    /\ device = [disp_open |-> connected, ctrl_open |-> connected, shown |-> image,
                 wavelength |-> DeviceSettings.wavelength, phase |-> DeviceSettings.phase,
                 saved |-> FALSE]
    /\ calls = <<>>
    /\ outcome = NoOutcome
    /\ target = <<>>
    /\ xs = <<>>
    /\ ys = <<>>
    /\ interp = NoInterp
    /\ grayscales = <<>>
    /\ intensities = <<>>
    /\ curve = NoCurve
    /\ GeneratorsIdle
    /\ CheckIdle
    /\ MeasureIdle

notCalib == <<target, xs, ys, interp, grayscales, intensities, ignored_samples, curve,
              corrected, debug, connected, slm_dimensions, wavelength, slm_phase, wl_save,
              active, pattern, errVars, sweep, events>>

\* the SLM is not connected: the first 'Generate pattern' of the sweep
\* raises (line 200), after the contrast was set to 0 (line 199)
GetCalibDataNotConnected ==
    /\ pc = "ready"
    /\ connected # TRUE
    /\ params' = [params EXCEPT !.BinaryGratingPattern.contrast = 0]
    /\ pc' = "raised"
    /\ UNCHANGED <<image, correction_data, data, wls, device, calls, outcome, notCalib>>

\* the sweep runs; then lines 343-353
GetCalibData ==
    /\ pc = "ready"
    /\ connected = TRUE
    /\ \E sample_nb \in 1..MaxSamples, w \in WlsInputs :
       \E d \in DataInputs(sample_nb, Len(w)), statuses \in [1..(sample_nb + 1) -> StatusVals] :
          /\ params' = [params EXCEPT !.BinaryGratingPattern.contrast =
                                          SentContrast(sample_nb + 1, sample_nb)]
          /\ image' = SentPattern(params.BinaryGratingPattern,
                                  SentContrast(sample_nb + 1, sample_nb), slm_dimensions)
          /\ device' = [device EXCEPT !.shown =
                           ShownAfter(statuses, params.BinaryGratingPattern,
                                      slm_dimensions, @)]
          /\ calls' = [k \in 1..(sample_nb + 1) |-> Call("SLM_Disp_Data", statuses[k])]
          /\ data' = d
          /\ wls' = w
          /\ IF Calibrate(d, w, slm_dimensions[2]).error # ""
             THEN /\ outcome' = Outcome("get_calib_data", "IndexError", "")
                  /\ pc' = "raised"
                  /\ UNCHANGED correction_data
             ELSE /\ outcome' = Outcome("get_calib_data", "", "None")
                  /\ pc' = "calibrated"
                  /\ correction_data' = Calibrate(d, w, slm_dimensions[2]).table
    /\ UNCHANGED notCalib

\* generate_pattern of PhaseCorrector with the table just stored
GeneratePatternCalibrated ==
    /\ pc = "calibrated"
    /\ corrected' = generate_pattern(image, correction_data, ignored_samples)
    /\ correction_data' = corrected'.table
    /\ pc' = IF corrected'.error # "" THEN "raised" ELSE "returned"
    /\ UNCHANGED <<image, interpVars, mapVars, slmVars, genVars, errVars, measVars>>

NextCalib == GetCalibDataNotConnected \/ GetCalibData \/ GeneratePatternCalibrated

SpecCalib == InitCalib /\ [][NextCalib]_vars

\* C18: after 'Get correction data' completes the correction table has
\* exactly N entries, N the device width, every entry has the two-row form
\* (row 0 grayscales, row 1 intensities) that generate_pattern reads with
\* correction_data[row][0, :] and correction_data[row][1, :], and
\* generate_pattern indexes the table only with indices 0..N-1.
C18_TableForm ==
    /\ (pc = "calibrated") =>
          /\ Len(correction_data) = slm_dimensions[2]
          /\ \A i \in 1..Len(correction_data) :
                correction_data[i].ndim = 2 /\ Len(correction_data[i].data) = 2
          /\ Len(PhasePattern(image)) = Len(correction_data)
    /\ (outcome.op = "get_calib_data" /\ outcome.error = "" /\ corrected.stage # "") =>
          corrected.error # "IndexError"

----------------------------------------------------------------------------
(* The slope sign of the last sample, calib_tools.py line 266 *)

\* C21: in map_grayscale_to_phase the slope sign of a sample is the sign of
\* the forward difference of intensity, and the slope sign of the last
\* sample equals the slope sign of its neighbour, the second-to-last
\* sample, so that the last sample is unfolded on the same acos branch as
\* its neighbour whenever it survives truncation and exclusion.
C21_LastSlopeRepeats ==
    (pc # "ready" /\ Len(intensities) >= 2) =>
        /\ \A i \in 1..(Len(intensities) - 1) :
              Slopes(Normalize(intensities))[i]
                 = Sign(Normalize(intensities)[i + 1] - Normalize(intensities)[i])
        /\ Slopes(Normalize(intensities))[Len(intensities)]
              = Slopes(Normalize(intensities))[Len(intensities) - 1]

----------------------------------------------------------------------------
(* The 'Measure' action of UniformAndBinaryCalib step by step,             *)
(* calib_tools.py lines 178-224, run on its own or by 'Get correction      *)
(* data' (lines 338-353).  pc is the position inside measure; sweep holds  *)
(* its locals and events the phases set, patterns sent, waits and spectra  *)
(* read so far.  puzzle.process_events() (lines 202, 208) lets a click on  *)
(* 'disconnect' run in the middle of the sweep.  The spectrometer is the   *)
(* environment: it hands over a spectrum, or the read raises.              *)

\* lines 152-157
MODE_EFF == "BinaryEfficiency"
MODE_GRAY == "GrayscaleCalibration"
NORM_NONE == "None"
NORM_PER_WL == "Per wavelength"

\* line 198: grating if self.MODE_EFF else uniform; the condition is the
\* class constant, a non-empty string, not the mode that was read in line 191
target_piece(mode) == IF MODE_EFF # "" THEN "BinaryGratingPattern" ELSE "UniformPattern"

\* target_piece[target_piece.PARAM_PHASE].set_value(value), lines 199, 205
SetTargetPhase(ps, piece, value) ==
    IF piece = "BinaryGratingPattern"
    THEN [ps EXCEPT !.BinaryGratingPattern.contrast = value]
    ELSE [ps EXCEPT !.UniformPattern.phase = value]

\* the pattern the target piece generates, in units of 1/ImgOne
TargetPattern(ps, piece, dim) ==
    IF piece = "BinaryGratingPattern"
    THEN SentPattern(ps.BinaryGratingPattern, ps.BinaryGratingPattern.contrast, dim)
    ELSE Full(dim, ps.UniformPattern.phase * ImgOne)

Ev(ev, piece, i, value) == [ev |-> ev, piece |-> piece, i |-> i, value |-> value]

\* lines 213-220
NormalizeSpectrums(sp, norm) ==
    IF norm = NORM_PER_WL
    THEN [i \in 1..Len(sp) |-> [j \in 1..Len(sp[i]) |->
             (sp[i][j] * IOne) \div NpMax([k \in 1..Len(sp) |-> sp[k][j]])]]
    ELSE sp

\* what the spectrometer hands over for one sample
SpectrumInputs(n_wl) ==
    {[j \in 1..n_wl |-> IOne], [j \in 1..n_wl |-> IF j = 1 THEN IOne \div 2 ELSE IOne]}

InitMeasure ==
    /\ pc = "ready"
    /\ connected \in BOOLEAN
    /\ slm_dimensions \in {<<1, w>> : w \in 1..MaxWidth}
    /\ image = Full(slm_dimensions, 0)
    /\ \/ data = <<>> /\ wls = <<>> /\ correction_data = <<>>
       \/ /\ data = <<<<IOne \div 2>>>>
          /\ wls = <<1200>>
          /\ correction_data = <<Array1(<<IOne \div 2>>)>>
    /\ sweep = NoSweep
    /\ events = <<>>
    /\ ignored_samples = 1
    /\ corrected = NoCorrected
    /\ debug = FALSE
    /\ wl_save = TRUE
    /\ wavelength = DeviceSettings.wavelength
    /\ slm_phase = DeviceSettings.phase
    /\ device = [disp_open |-> connected, ctrl_open |-> connected, shown |-> image,
                 wavelength |-> DeviceSettings.wavelength, phase |-> DeviceSettings.phase,
                 saved |-> FALSE]
    /\ calls = <<>>
    /\ outcome = NoOutcome
    /\ target = <<>>
    /\ xs = <<>>
    /\ ys = <<>>
    /\ interp = NoInterp
    /\ grayscales = <<>>
    /\ intensities = <<>>
    /\ curve = NoCurve
    /\ GeneratorsIdle
    /\ CheckIdle

\* what no step of the sweep touches
notMeasure == <<interpVars, mapVars, corrected, debug, connected, slm_dimensions, wavelength,
                slm_phase, wl_save, active, pattern, errVars>>

\* lines 339-342 when run by 'Get correction data', then lines 180-199: the
\* parameters are read, the target piece chosen and its phase set to 0
MeasureBegin ==
    /\ pc = "ready"
    /\ \E caller \in {"measure", "get_calib_data"}, mode \in {MODE_EFF, MODE_GRAY},
          norm \in {NORM_NONE, NORM_PER_WL}, sample_nb \in 1..MaxSamples, n_wl \in 1..MaxWl :
          /\ caller = "get_calib_data" => (mode = MODE_GRAY /\ norm = NORM_PER_WL)
          /\ sweep' = [caller |-> caller, mode |-> mode, normalize |-> norm,
                       sample_nb |-> sample_nb, target_piece |-> target_piece(mode),
                       effective_wls |-> SubSeq(<<1050, 1200, 1400, 1550>>, 1, n_wl),
                       spectrums |-> <<>>,
                       before |-> <<data, wls, correction_data>>]
          /\ params' = SetTargetPhase(
                          IF mode = MODE_EFF
                          THEN [params EXCEPT !.BinaryGratingPattern.duty_cycle = DutyOne \div 2]
                          ELSE params,
                          target_piece(mode), 0)
          /\ events' = <<Ev("set", target_piece(mode), 0, 0)>>
    /\ pc' = "send"
    /\ UNCHANGED <<image, correction_data, data, wls, device, calls, outcome, notMeasure>>

\* line 205: the phase of sample i + 1 is set
SetPhase ==
    /\ pc = "set"
    /\ params' = SetTargetPhase(params, sweep.target_piece,
                                contrasts(sweep.sample_nb)[Len(sweep.spectrums) + 1])
    /\ events' = Append(events, Ev("set", sweep.target_piece, Len(sweep.spectrums) + 1,
                                   contrasts(sweep.sample_nb)[Len(sweep.spectrums) + 1]))
    /\ pc' = "send"
    /\ UNCHANGED <<image, correction_data, data, wls, device, calls, outcome, sweep,
                   notMeasure>>

\* the phase last set by the sweep
LastSet == events[CHOOSE j \in 1..Len(events) :
                     events[j].ev = "set" /\ \A k \in (j + 1)..Len(events) : events[k].ev # "set"]

\* lines 200, 206: 'Generate pattern' of the target piece (patterns.py lines
\* 60-72, 88-89, pzp.py lines 81-94)
SendPattern ==
    /\ pc = "send"
    /\ IF connected # TRUE
       THEN /\ outcome' = Outcome(sweep.caller, "RuntimeError", "")
            /\ pc' = "raised"
            /\ UNCHANGED <<image, device, calls, events>>
       ELSE \E status \in StatusVals :
            /\ image' = TargetPattern(params, sweep.target_piece, slm_dimensions)
            /\ calls' = <<Call("SLM_Disp_Data", status)>>
            /\ device' = [device EXCEPT !.shown = IF status = SLM_OK THEN image' ELSE @]
            /\ events' = Append(events, Ev("send", sweep.target_piece, LastSet.i, LastSet.value))
            /\ pc' = "wait"
            /\ UNCHANGED outcome
    /\ UNCHANGED <<correction_data, data, wls, params, sweep, notMeasure>>

\* mutant: the sweep goes on without the wait
SettlingWait_Skipped ==
    /\ pc = "wait"
    /\ pc' = IF LastSet.i = 0 THEN "set" ELSE "read"
    /\ UNCHANGED <<events, image, correction_data, data, wls, device, calls, outcome, params,
                   sweep, notMeasure>>

\* lines 201-202, 207-208: time.sleep and process_events
SettlingWait ==
    /\ pc = "wait"
    /\ events' = Append(events, Ev("wait", sweep.target_piece, LastSet.i, LastSet.value))
    /\ pc' = IF LastSet.i = 0 THEN "set" ELSE "read"
    /\ UNCHANGED <<image, correction_data, data, wls, device, calls, outcome, params, sweep,
                   notMeasure>>

\* 'disconnect' is clicked and runs inside process_events
DisconnectDuringWait ==
    /\ pc = "wait"
    /\ Disconnect

\* mutant: every spectrum read is published at once
ReadSpectrum_Publishes ==
    /\ pc = "read"
    /\ \E row \in SpectrumInputs(Len(sweep.effective_wls)) :
          /\ sweep' = [sweep EXCEPT !.spectrums = Append(@, row)]
          /\ data' = sweep'.spectrums
    /\ events' = Append(events, Ev("read", sweep.target_piece, LastSet.i, LastSet.value))
    /\ pc' = IF Len(sweep.spectrums) + 1 < sweep.sample_nb THEN "set" ELSE "finish"
    /\ UNCHANGED <<image, correction_data, wls, device, calls, outcome, params,
                   notMeasure>>

\* line 209: the spectrum of the sample is read
ReadSpectrum ==
    /\ pc = "read"
    /\ \E row \in SpectrumInputs(Len(sweep.effective_wls)) :
          sweep' = [sweep EXCEPT !.spectrums = Append(@, row)]
    /\ events' = Append(events, Ev("read", sweep.target_piece, LastSet.i, LastSet.value))
    /\ pc' = IF Len(sweep.spectrums) + 1 < sweep.sample_nb THEN "set" ELSE "finish"
    /\ UNCHANGED <<image, correction_data, data, wls, device, calls, outcome, params,
                   notMeasure>>

\* line 209 raises: the spectrum no longer fits the wavelength mask
ReadSpectrumRaise ==
    /\ pc = "read"
    /\ outcome' = Outcome(sweep.caller, "IndexError", "")
    /\ pc' = "raised"
    /\ UNCHANGED <<events, image, correction_data, data, wls, device, calls, params, sweep,
                   notMeasure>>

\* lines 211-224: the spectra are normalised and published
MeasureFinish ==
    /\ pc = "finish"
    /\ data' = NormalizeSpectrums(sweep.spectrums, sweep.normalize)
    /\ wls' = sweep.effective_wls
    /\ pc' = IF sweep.caller = "get_calib_data" THEN "measured" ELSE "returned"
    /\ outcome' = IF sweep.caller = "get_calib_data" THEN outcome
                  ELSE Outcome("measure", "", "None")
    /\ UNCHANGED <<events, image, correction_data, device, calls, params, sweep, notMeasure>>

\* lines 343-353 of 'Get correction data', after measure has returned
StoreCorrection ==
    /\ pc = "measured"
    /\ IF Calibrate(data, wls, Len(image[1])).error # ""
       THEN /\ outcome' = Outcome("get_calib_data", "IndexError", "")
            /\ pc' = "raised"
            /\ UNCHANGED correction_data
       ELSE /\ outcome' = Outcome("get_calib_data", "", "None")
            /\ pc' = "calibrated"
            /\ correction_data' = Calibrate(data, wls, Len(image[1])).table
    /\ UNCHANGED <<events, image, data, wls, device, calls, params, sweep, notMeasure>>

NextMeasure ==
    \/ MeasureBegin
    \/ SetPhase
    \/ SendPattern
    \/ SettlingWait
    \/ DisconnectDuringWait
    \/ ReadSpectrum
    \/ ReadSpectrumRaise
    \/ MeasureFinish
    \/ StoreCorrection

SpecMeasure == InitMeasure /\ [][NextMeasure]_vars

----------------------------------------------------------------------------
(* Claims on the sweep *)

\* C22: in the 'Measure' action with mode GrayscaleCalibration the piece
\* commanded at every step of the sweep is the uniform pattern piece; the
\* binary grating piece is the commanded target only in mode
\* BinaryEfficiency.
C22_TargetByMode ==
    \A j \in 1..Len(events) :
        events[j].ev \in {"set", "send"} =>
            events[j].piece = IF sweep.mode = MODE_GRAY THEN "UniformPattern"
                              ELSE "BinaryGratingPattern"

----------------------------------------------------------------------------
(* Claims on the correction table and the corrected pattern *)

\* C23: for every column c in 0..N-1 the correction-table entry built by
\* 'Get correction data' is the sweep for one wavelength: the intensities
\* at all commanded grayscales for the wavelength bin nearest to
\* min_wl + c*(max_wl - min_wl)/N; the index found by the search is applied
\* to the wavelength axis of the calibration matrix and is always within
\* that axis's bounds.
C23_SweepOfNearestWavelength ==
    /\ (pc = "calibrated") =>
          \A c \in 1..Len(correction_data) :
             correction_data[c].data[1]
                = [i \in 1..Len(data) |->
                      data[i][calib_idx(wls, c - 1, Len(correction_data)) + 1]]
    /\ ~(outcome.op = "get_calib_data" /\ outcome.error = "IndexError")

\* C24: in PhaseCorrector.generate_pattern the two transposes cancel: the
\* output pixel at (r, c) is the correction of the input image pixel at
\* the same (r, c), computed with the correction-table entry of column c
\* only; no output pixel depends on another input pixel or table entry.
C24_PixelwiseCorrection ==
    (pc # "ready" /\ corrected.stage = "stack") =>
        /\ corrected.error = ""
        /\ Shape(corrected.pattern) = Shape(image)
        /\ \A r \in 1..Len(image) : \A c \in 1..Len(image[r]) :
              FEqInt(CorrectRow(<<PhasePattern(image)[c][r]>>, correction_data[c],
                                ignored_samples).result[1],
                     corrected.pattern[r][c])

\* the kind of the j-th event of a sweep that runs as lines 199-209 are
\* written: the phase 0 is set, sent and waited for, then each sample is
\* set, sent, waited for and read
SweepOrder(j) ==
    IF j <= 3 THEN <<"set", "send", "wait">>[j]
    ELSE <<"set", "send", "wait", "read">>[((j - 4) % 4) + 1]

\* the sample the j-th event belongs to
SweepSample(j) == IF j <= 3 THEN 0 ELSE ((j - 4) \div 4) + 1

\* the events are in the order of the sweep, each on the grayscale of its sample
InSweepOrder ==
    \A j \in 1..Len(events) :
        /\ events[j].ev = SweepOrder(j)
        /\ events[j].i = SweepSample(j)
        /\ events[j].value = IF SweepSample(j) = 0 THEN 0
                             ELSE contrasts(sweep.sample_nb)[SweepSample(j)]

\* the spectra read are one per sample, and none is left out when the
\* sweep is over
SpectraPerSample ==
    /\ Len(sweep.spectrums) = Cardinality({j \in 1..Len(events) : events[j].ev = "read"})
    /\ Len(sweep.spectrums) <= sweep.sample_nb
    /\ pc \in {"finish", "measured", "returned", "calibrated"} =>
          Len(sweep.spectrums) = sweep.sample_nb

\* C25 as stated: during the 'Measure' sweep the events of each sample i
\* occur strictly in the order set phase i, send pattern, settling wait,
\* read spectrum i; exactly sample_nb spectra are read, one per commanded
\* grayscale, with commanded grayscales non-decreasing from 0 to 1023.
C25_SweepOrder ==
    (sweep.sample_nb > 0) =>
        /\ InSweepOrder
        /\ SpectraPerSample
        /\ \A k \in 1..(sweep.sample_nb - 1) :
              contrasts(sweep.sample_nb)[k] <= contrasts(sweep.sample_nb)[k + 1]
        /\ contrasts(sweep.sample_nb)[1] = 0
        /\ contrasts(sweep.sample_nb)[sweep.sample_nb] = GMax

\* C25 amended: the order of the events and the count of the spectra as
\* stated; the commanded grayscales are non-decreasing from 0, and end at
\* 1023 when the sweep has two samples or more: a sweep of one sample
\* commands the grayscale 0 alone.
C25_SweepOrderFromZero ==
    (sweep.sample_nb > 0) =>
        /\ InSweepOrder
        /\ SpectraPerSample
        /\ \A k \in 1..(sweep.sample_nb - 1) :
              contrasts(sweep.sample_nb)[k] <= contrasts(sweep.sample_nb)[k + 1]
        /\ contrasts(sweep.sample_nb)[1] = 0
        /\ contrasts(sweep.sample_nb)[sweep.sample_nb]
              = IF sweep.sample_nb >= 2 THEN GMax ELSE 0

\* a sweep of two samples or more has read its last spectrum
C25_Witness ==
    /\ pc = "finish"
    /\ sweep.sample_nb >= 2
    /\ Len(events) = 3 + 4 * sweep.sample_nb
    /\ events[Len(events)].ev = "read"
    /\ events[Len(events)].value = GMax

\* C26: calibration results are replaced wholesale or not at all: the
\* 'Calibration data' and 'Calibration wl' parameters and the corrector's
\* 'Correction data' change only after a sweep has read all sample_nb
\* spectra; if a send or a read raises during the sweep, each of them keeps
\* exactly the value it had before the action started.
C26_WholesaleOrNotAtAll ==
    /\ [][/\ (data' # data \/ wls' # wls \/ correction_data' # correction_data) =>
                (sweep.sample_nb > 0 /\ Len(sweep.spectrums) = sweep.sample_nb)
          /\ (pc' = "raised" /\ pc \in {"send", "read"}) =>
                <<data', wls', correction_data'>> = sweep.before]_vars
    /\ []((pc # "ready" /\ Len(sweep.spectrums) < sweep.sample_nb) =>
             <<data, wls, correction_data>> = sweep.before)

\* a send raised in the middle of a sweep that had read a spectrum, with
\* an earlier calibration in place
C26_Witness ==
    /\ pc = "raised"
    /\ outcome.error = "RuntimeError"
    /\ Len(sweep.spectrums) >= 1
    /\ Len(sweep.spectrums) < sweep.sample_nb
    /\ data # <<>>
    /\ correction_data # <<>>

----------------------------------------------------------------------------
(* The guards of the pattern write of pzp.py                               *)

\* C27: the driver's pattern write SLM_Disp_Data is called only while
\* 'connected' is True, debug mode is off and the pattern has the shape of
\* the stored SLM dimensions; a set of the image parameter to a pattern of
\* any other shape raises ValueError and writes nothing.
C27_WriteGuarded ==
    /\ [](\A i \in 1..Len(calls) : calls[i].fn = "SLM_Disp_Data" =>
              /\ connected = TRUE
              /\ ~debug
              /\ Shape(image) = slm_dimensions)
    /\ [][\A value \in Images :
              (image_setter("image", value) /\ Shape(value) # slm_dimensions) =>
                  /\ outcome'.error = "ValueError"
                  /\ calls' = <<>>
                  /\ UNCHANGED <<image, device>>]_vars

----------------------------------------------------------------------------
(* linear_interpolation stays inside its data                              *)

\* C28: linear_interpolation never extrapolates: in a call that passes the
\* range check, the index i selected for each target satisfies
\* 0 <= i <= len(x) - 1 and x[i] <= target, and with strictly ascending x
\* each result lies between y[i] and y[i+1] of the extended y, hence within
\* [min(y), max(y)].
C28_NoExtrapolation ==
    pc = "returned" =>
        \A j \in 1..Len(target) :
            /\ 0 <= interp.idx[j]
            /\ interp.idx[j] <= Len(xs) - 1
            /\ At(xs, interp.idx[j]) <= target[j]
            /\ interp.idx[j] + 1 < Len(ExtendY(ys))
            /\ StrictlyAscending(xs) =>
                   /\ FBetween(interp.result[j],
                               MinInt(At(ExtendY(ys), interp.idx[j]),
                                      At(ExtendY(ys), interp.idx[j] + 1)),
                               MaxInt(At(ExtendY(ys), interp.idx[j]),
                                      At(ExtendY(ys), interp.idx[j] + 1)))
                   /\ FBetween(interp.result[j], NpMin(ys), NpMax(ys))

\* C28 witness: target 5 falls between the knots (1, 1) and (10, 3) of three,
\* and its image lies strictly between 1 and 3
C28_Witness ==
    /\ pc = "returned" /\ xs = <<0, 1, 10>> /\ ys = <<0, 1, 3>> /\ target = <<5>>
    /\ interp.idx[1] = 1
    /\ interp.result[1].n > interp.result[1].d
    /\ interp.result[1].n < 3 * interp.result[1].d

----------------------------------------------------------------------------
(* A failed attempt to connect                                             *)

\* C29: with the driver in use, connect returns 1 only if the display open
\* and the control open both returned SLM_OK; when either failed it returns
\* 0, leaves 'SLM dimensions', wavelength and phase unchanged, and leaves no
\* display or control handle open that this attempt opened.
C29_FailedConnectLeavesNothing ==
    [][(Connect /\ ~debug) =>
          /\ outcome'.returned = "1" =>
                 /\ calls'[1] = Call("SLM_Disp_Open", SLM_OK)
                 /\ calls'[2] = Call("SLM_Ctrl_Open", SLM_OK)
          /\ (calls'[1].status # SLM_OK \/ calls'[2].status # SLM_OK) =>
                 /\ outcome'.returned = "0"
                 /\ UNCHANGED <<slm_dimensions, wavelength, slm_phase>>
                 /\ device'.disp_open => device.disp_open
                 /\ device'.ctrl_open => device.ctrl_open]_vars

----------------------------------------------------------------------------
(* Debug mode                                                              *)

\* C30: in debug mode no driver function is ever called: whatever connect,
\* disconnect, image-set and 'Update target wavelength and phase' operations
\* have run, the calls made are none and the device is untouched, and a
\* connect has returned 1 with 'SLM dimensions' set to the dummy (1200, 1920).
C30_DebugCallsNothing ==
    debug =>
        /\ calls = <<>>
        /\ ~device.disp_open /\ ~device.ctrl_open /\ ~device.saved
        /\ device.shown = <<>>
        /\ outcome.op = "connect" =>
               /\ outcome.returned = "1"
               /\ connected = TRUE
               /\ slm_dimensions = dummy_SLM_dimension

\* C30 witness: in debug mode connect has run, an image of the dummy shape
\* has been stored and the update action has returned
C30_Witness ==
    /\ debug
    /\ connected = TRUE
    /\ slm_dimensions = dummy_SLM_dimension
    /\ outcome = Outcome("updateslm", "", "None")
    /\ calls = <<>>
    /\ Shape(image) = dummy_SLM_dimension

====
